---- MODULE Spec2Model ----
(***************************************************************************)
(* Model of the match core of MatchTrackerPWA (src/script.js): the match   *)
(* clock, the period state machine, the event log with its modal-driven    *)
(* handlers, and the score folds derived from the log.                      *)
(*                                                                         *)
(* One match object ("m1") lives in appState.matches.  Every handler is an *)
(* action guarded only by the conditions and early returns of its own      *)
(* code: which buttons the page shows or hides is not part of a handler.   *)
(* Wall-clock time (Date.now()) is the variable `now`, advanced by the      *)
(* environment in steps of StepMs milliseconds.                             *)
(***************************************************************************)
EXTENDS Integers, Sequences, FiniteSets, TLC

(***************************** bounds **************************************)
\* number of StepMs advances of the wall clock explored
MaxClockSteps == 4
\* longest event log explored
MaxEvents == 2
\* events logged through the modals in the specification of all handlers
MaxLogged == 1
\* longest event log explored by the order specification
MaxOrdered == 3

(***************************** enumerations ********************************)
NOT_STARTED == "Not Started"
FIRST_HALF == "1st Half"
HALF_TIME == "Half Time"
SECOND_HALF == "2nd Half"
FULL_TIME == "Full Time"
EXTRA_FIRST == "Extra Time 1st Half"
EXTRA_HALF == "Extra Time Half Time"
EXTRA_SECOND == "Extra Time 2nd Half"
MATCH_OVER == "Match Over"

MatchPeriod ==
  {NOT_STARTED, FIRST_HALF, HALF_TIME, SECOND_HALF, FULL_TIME,
   EXTRA_FIRST, EXTRA_HALF, EXTRA_SECOND, MATCH_OVER}

EventType == {"shot", "substitution", "kickout", "card", "foulConceded", "note"}

ShotOutcome == {"goal", "point", "twoPointer", "wide", "saved", "droppedShort", "offPost"}

ShotType == {"fromPlay", "free", "penalty", "fortyFive", "sixtyFive", "sideline", "mark"}

CardType == {"yellow", "red", "black"}

FoulOutcome == {"free", "penalty"}

\* JavaScript null in a string-valued field
Null == "null"
\* JavaScript null in periodStartTimestamp (a number of milliseconds otherwise)
NullTimestamp == -1
\* JavaScript null in a field holding an event id (ids are positive)
NoEvent == 0
\* appState.currentMatchId when no match is open, and the id of the match
NoMatch == "none"
MatchId == "m1"
\* appState.timerInterval when no interval handle is stored
NoTimer == 0

TeamKeys == {"team1", "team2"}

\* match[teamKey].id
TeamId(teamKey) == IF teamKey = "team1" THEN "T1" ELSE "T2"

\* the millisecond period of the tick (setInterval(..., 1000))
TickMs == 1000
\* wall-clock instant (ms) at which the match object is constructed
T0 == 2 * TickMs
\* granularity (ms) of the wall-clock advances: half a second, so that
\* handlers can run between two whole seconds of the match clock
StepMs == TickMs \div 2
\* the values of match.extraHalfLength explored: absent, 0, negative (both
\* only in imported documents) and the 10 every created match gets
ExtraHalfLengths == {<<>>, <<0>>, <<-10>>, <<10>>}
\* the values of match.matchType the code distinguishes
MatchTypes == {"football", "ladies_football", "hurling", "camogie"}

(***************************** state ***************************************)
VARIABLES
  now,                  \* Date.now()
  matches,              \* appState.matches: id, competition and presence of the teams of each
  currentMatchId,       \* appState.currentMatchId
  timerInterval,        \* appState.timerInterval (handle or NoTimer)
  liveIntervals,        \* handles of the intervals the browser still fires
  currentPeriod,        \* match.currentPeriod
  elapsedTime,          \* match.elapsedTime (seconds)
  isPaused,             \* match.isPaused
  periodStartTimestamp, \* match.periodStartTimestamp
  extraHalfLength,      \* match.extraHalfLength: <<>> when absent, else <<n>>
  matchType,            \* match.matchType
  events,               \* match.events
  nextId,               \* next value generateId() hands out
  scoreModalData,
  foulModalData,
  kickoutModalData,
  substitutionModalData,
  noteModalData,
  editingEventId,       \* appState.editingEventId
  runningMs,            \* history: wall-clock ms the clock has been running
                        \* (isPaused false) in the current period
  editingMatchId,       \* appState.editingMatchId
  rosters,              \* match[teamKey].players of the match, by teamKey
  playerInputs,         \* the inputs of #players-edit-container
  playerPanels,         \* appState.playerPanels
  lastSelectedPanels,   \* appState.lastSelectedPanels, as key/panel pairs
  editingPanelId,       \* appState.editingPanelId
  originalPanelState,   \* appState.originalPanelState: <<>> when null
  tempPanelPlayers,     \* window.tempPanelPlayers: <<>> when null
  currentMatchStats,    \* currentMatchStats of the statistics view
  lsFails,              \* localStorage.setItem throws (quota exceeded)
  idbFails,             \* IndexedDB cannot be opened or written
  localStorage,         \* localStorage, by key: <<>> when the key is absent
  indexedDB             \* the object store of MatchTrackerDB, by key

clockVars ==
  <<now, matches, currentMatchId, timerInterval, liveIntervals, currentPeriod,
    elapsedTime, isPaused, periodStartTimestamp, extraHalfLength, runningMs>>

modalVars ==
  <<scoreModalData, foulModalData, kickoutModalData, substitutionModalData,
    noteModalData, editingEventId>>

logVars == <<events, nextId>>

dataVars ==
  <<editingMatchId, rosters, playerInputs, playerPanels, lastSelectedPanels,
    editingPanelId, originalPanelState, tempPanelPlayers, currentMatchStats>>

storeVars == <<lsFails, idbFails, localStorage, indexedDB>>

vars == <<clockVars, matchType, logVars, modalVars, dataVars, storeVars>>

(***************************** pure helpers ********************************)
isPlayingPeriod(period) ==
  \/ period = FIRST_HALF
  \/ period = SECOND_HALF
  \/ period = EXTRA_FIRST
  \/ period = EXTRA_SECOND

\* the `order` array of getNextPeriod
order ==
  <<NOT_STARTED, FIRST_HALF, HALF_TIME, SECOND_HALF, FULL_TIME,
    EXTRA_FIRST, EXTRA_HALF, EXTRA_SECOND, MATCH_OVER>>

\* order.indexOf(current), 0-based, -1 when absent
indexOf(current) ==
  IF \E i \in 1..Len(order) : order[i] = current
  THEN (CHOOSE i \in 1..Len(order) : order[i] = current) - 1
  ELSE -1

\* !x for x = match.extraHalfLength (undefined and 0 are falsy)
Falsy(x) == x = <<>> \/ x[1] = 0

\* x <= 0 in JavaScript (undefined compares false)
NotPositive(x) == x # <<>> /\ x[1] <= 0

\* x > 0 in JavaScript (undefined compares false)
Positive(x) == x # <<>> /\ x[1] > 0

getNextPeriod_skipAlways(current, ehl) ==
  LET idx == indexOf(current) IN
  IF idx < 0 \/ idx >= Len(order) - 1 THEN MATCH_OVER
  ELSE IF Falsy(ehl) \/ NotPositive(ehl) THEN MATCH_OVER
       ELSE order[idx + 2]

getNextPeriod_noSkip(current, ehl) ==
  LET idx == indexOf(current) IN
  IF idx < 0 \/ idx >= Len(order) - 1 THEN MATCH_OVER
  ELSE order[idx + 2]

getNextPeriod_wrap(current, ehl) ==
  LET idx == indexOf(current) IN
  IF idx < 0 \/ idx >= Len(order) - 1 THEN order[1]
  ELSE LET next == order[idx + 2] IN
       IF /\ next \in {EXTRA_FIRST, EXTRA_HALF, EXTRA_SECOND}
          /\ (Falsy(ehl) \/ NotPositive(ehl))
       THEN MATCH_OVER
       ELSE next

getNextPeriod(current, ehl) ==
  LET idx == indexOf(current) IN
  IF idx < 0 \/ idx >= Len(order) - 1 THEN MATCH_OVER
  ELSE LET next == order[idx + 2] IN
       IF /\ next \in {EXTRA_FIRST, EXTRA_HALF, EXTRA_SECOND}
          /\ (Falsy(ehl) \/ NotPositive(ehl))
       THEN MATCH_OVER
       ELSE next

\* array.find((x) => x.id === id) and findIndex: the index of the first
\* element with that id, 0 if none
find(evts, id) ==
  IF \E i \in 1..Len(evts) : evts[i].id = id
  THEN CHOOSE i \in 1..Len(evts) :
         /\ evts[i].id = id
         /\ \A j \in 1..(i - 1) : evts[j].id # id
  ELSE 0

\* ToNumber(periodStartTimestamp): null is 0 in `now - periodStartTimestamp`
TimestampValue(ts) == IF ts = NullTimestamp THEN 0 ELSE ts

\* Math.floor((now - match.periodStartTimestamp) / 1000)
ClockSeconds(t, ts) == (t - TimestampValue(ts)) \div 1000

(***************************** timer ***************************************)
\* the handle setInterval returns: one the browser is not using
FreshHandle(live) == CHOOSE h \in 1..(Cardinality(live) + 1) : h \notin live

\* stopTimer(): the pair <<timerInterval, liveIntervals>> afterwards
stopTimer(handle, live) ==
  IF handle # NoTimer THEN <<NoTimer, live \ {handle}>> ELSE <<handle, live>>

startTimerInterval_noStop(handle, live) ==
  LET h == FreshHandle(live)
  IN <<h, live \cup {h}>>

\* startTimerInterval(match): stopTimer(), then store a new interval
startTimerInterval(handle, live) ==
  LET stopped == stopTimer(handle, live)
      h == FreshHandle(stopped[2])
  IN <<h, stopped[2] \cup {h}>>

(***************************** rosters and storage *************************)
\* generatePlayers(): the loop bound, players numbered 1 to 30
RosterSize == 30

\* generatePlayers() for the team teamKey; the ids generateId() hands out are
\* named after the team and the position
generatePlayers(teamKey) ==
  [i \in 1..RosterSize |->
     [id |-> TeamId(teamKey) \o "-" \o ToString(i),
      name |-> "No." \o ToString(i), jerseyNumber |-> i]]

\* array.splice(index, 1) for a 1-based index
splice(array, index) ==
  SubSeq(array, 1, index - 1) \o SubSeq(array, index + 1, Len(array))

\* appState.editingPanelId when no stored panel is being edited (ids are
\* positive)
NoPanel == 0

\* the keys saveAppState writes
StorageKeys == {"matches", "playerPanels", "lastSelectedPanels"}

\* StorageManager.saveData(key, data): localStorage first, IndexedDB when
\* setItem throws, a warning when both fail; the pair of stores afterwards
saveData(ls, idb, key, data) ==
  IF ~lsFails THEN <<[ls EXCEPT ![key] = <<data>>], idb>>
  ELSE IF ~idbFails THEN <<ls, [idb EXCEPT ![key] = <<data>>]>>
  ELSE <<ls, idb>>

\* a saveAppState() whose failure unwinds the handler that called it
saveAppState_throwing ==
  /\ ~(lsFails /\ idbFails)
  /\ localStorage' =
       saveData(saveData(saveData(localStorage, indexedDB, "matches",
                                  matches')[1], indexedDB, "playerPanels",
                         playerPanels')[1], indexedDB, "lastSelectedPanels",
                lastSelectedPanels')[1]
  /\ UNCHANGED <<indexedDB, lsFails, idbFails>>

\* saveAppState(), run at the end of a handler on the state it leaves.  Of
\* appState.matches the stored copy holds the list of matches; the fields
\* of the match itself are not held in the stores of the model.
saveAppState ==
  LET a == saveData(localStorage, indexedDB, "matches", matches')
      b == saveData(a[1], a[2], "playerPanels", playerPanels')
      c == saveData(b[1], b[2], "lastSelectedPanels", lastSelectedPanels')
  IN /\ localStorage' = c[1]
     /\ indexedDB' = c[2]
     /\ UNCHANGED <<lsFails, idbFails>>

\* StorageManager.loadData(key): <<value>>, or <<>> for null
loadData(key) ==
  IF localStorage[key] # <<>> THEN localStorage[key]
  ELSE IF ~idbFails THEN indexedDB[key]
  ELSE <<>>

\* the collections of a fresh appState holding the one match, stored
InitData ==
  /\ matches = <<[id |-> MatchId, competition |-> "league",
                 team1 |-> TRUE, team2 |-> TRUE]>>
  /\ editingMatchId = NoMatch
  /\ rosters = [t \in TeamKeys |-> generatePlayers(t)]
  /\ playerInputs = <<>>
  /\ playerPanels = <<>>
  /\ lastSelectedPanels = {}
  /\ editingPanelId = NoPanel
  /\ originalPanelState = <<>>
  /\ tempPanelPlayers = <<>>
  /\ currentMatchStats = <<>>
  /\ lsFails = FALSE
  /\ idbFails = FALSE
  /\ localStorage =
       [key \in StorageKeys |->
          IF key = "matches" THEN <<matches>>
          ELSE IF key = "playerPanels" THEN <<playerPanels>>
          ELSE <<lastSelectedPanels>>]
  /\ indexedDB = [key \in StorageKeys |-> <<>>]

(***************************** initial state *******************************)
\* handleMatchFormSubmit, create branch: the new match, shown in the list
Init ==
  /\ now = T0
  /\ InitData
  /\ currentMatchId = NoMatch
  /\ timerInterval = NoTimer
  /\ liveIntervals = {}
  /\ currentPeriod = NOT_STARTED
  /\ elapsedTime = 0
  /\ isPaused = TRUE
  /\ periodStartTimestamp = NullTimestamp
  /\ extraHalfLength \in ExtraHalfLengths
  /\ matchType \in MatchTypes
  /\ events = <<>>
  /\ nextId = 1
  /\ scoreModalData = <<>>
  /\ foulModalData = <<>>
  /\ kickoutModalData = <<>>
  /\ substitutionModalData = <<>>
  /\ noteModalData = <<>>
  /\ editingEventId = NoEvent
  /\ runningMs = 0

(***************************** environment *********************************)
\* wall-clock time passes
Advance ==
  /\ now' = now + StepMs
  /\ runningMs' = IF isPaused THEN runningMs ELSE runningMs + StepMs
  /\ UNCHANGED <<matches, currentMatchId, timerInterval, liveIntervals,
                 currentPeriod, elapsedTime, isPaused, periodStartTimestamp, extraHalfLength,
                 matchType, dataVars, storeVars, logVars, modalVars>>

(***************************** view switches *******************************)
\* openMatchDetails(matchId) from a card of the match list: the list renders
\* cards only for the matches in appState.matches
openMatchDetails ==
  LET stopped == stopTimer(timerInterval, liveIntervals)
      timer == IF ~isPaused /\ isPlayingPeriod(currentPeriod)
               THEN startTimerInterval(stopped[1], stopped[2])
               ELSE stopped
  IN /\ find(matches, MatchId) # 0
     /\ currentMatchId' = MatchId
     /\ timerInterval' = timer[1]
     /\ liveIntervals' = timer[2]
     /\ UNCHANGED <<now, matches, currentPeriod, elapsedTime, isPaused,
                    periodStartTimestamp, extraHalfLength, runningMs,
                    matchType, dataVars, storeVars, logVars, modalVars>>

backToList ==
  LET stopped == stopTimer(timerInterval, liveIntervals)
  IN /\ currentMatchId' = NoMatch
     /\ timerInterval' = stopped[1]
     /\ liveIntervals' = stopped[2]
     /\ UNCHANGED <<now, matches, currentPeriod, elapsedTime, isPaused,
                    periodStartTimestamp, extraHalfLength, runningMs,
                    matchType, dataVars, storeVars, logVars, modalVars>>

\* a deleteMatch that fills the place of the deleted match with the last one
deleteMatch_swapLast(matchId) ==
  LET index == find(matches, matchId)
      last == matches[Len(matches)]
  IN IF index = 0 THEN UNCHANGED vars
     ELSE /\ matches' = SubSeq([matches EXCEPT ![index] = last], 1,
                               Len(matches) - 1)
          /\ currentMatchId' = IF currentMatchId = matchId THEN NoMatch
                               ELSE currentMatchId
          /\ UNCHANGED <<now, timerInterval, liveIntervals, currentPeriod,
                         elapsedTime, isPaused, periodStartTimestamp,
                         extraHalfLength, runningMs, matchType, dataVars,
                         logVars, modalVars>>
          /\ saveAppState

\* deleteMatch(matchId)
deleteMatch(matchId) ==
  LET index == find(matches, matchId)
  IN IF index = 0 THEN UNCHANGED vars
     ELSE /\ matches' = splice(matches, index)
          /\ currentMatchId' = IF currentMatchId = matchId THEN NoMatch
                               ELSE currentMatchId
          /\ UNCHANGED <<now, timerInterval, liveIntervals, currentPeriod,
                         elapsedTime, isPaused, periodStartTimestamp,
                         extraHalfLength, runningMs, matchType, dataVars,
                         logVars, modalVars>>
          /\ saveAppState

(***************************** clock and periods ***************************)
startMatchNext_restart(period, ehl) ==
  IF period \in {NOT_STARTED, HALF_TIME, EXTRA_HALF} THEN FIRST_HALF
  ELSE IF period = FULL_TIME
       THEN (IF Positive(ehl) THEN EXTRA_FIRST ELSE period)
  ELSE period

\* the period startMatch enters from `period`
startMatchNext(period, ehl) ==
  IF period = NOT_STARTED THEN FIRST_HALF
  ELSE IF period = HALF_TIME THEN SECOND_HALF
  ELSE IF period = FULL_TIME
       THEN (IF Positive(ehl) THEN EXTRA_FIRST ELSE period)
  ELSE IF period = EXTRA_HALF THEN EXTRA_SECOND
  ELSE period

startMatch ==
  /\ currentMatchId # NoMatch
  /\ IF \/ (currentPeriod = FULL_TIME /\ Falsy(extraHalfLength))
        \/ currentPeriod = MATCH_OVER
     THEN UNCHANGED vars
     ELSE LET next == startMatchNext(currentPeriod, extraHalfLength)
              timer == startTimerInterval(timerInterval, liveIntervals)
          IN /\ currentPeriod' = next
             /\ isPaused' = FALSE
             /\ periodStartTimestamp' = now - elapsedTime * 1000
             /\ timerInterval' = timer[1]
             /\ liveIntervals' = timer[2]
             /\ runningMs' = IF next # currentPeriod THEN 0 ELSE runningMs
             /\ UNCHANGED <<now, matches, currentMatchId, elapsedTime, extraHalfLength,
                            matchType, dataVars, logVars, modalVars>>
             /\ saveAppState

pauseMatch ==
  LET stopped == stopTimer(timerInterval, liveIntervals)
  IN /\ currentMatchId # NoMatch
     /\ isPaused' = TRUE
     /\ elapsedTime' = ClockSeconds(now, periodStartTimestamp)
     /\ timerInterval' = stopped[1]
     /\ liveIntervals' = stopped[2]
     /\ UNCHANGED <<now, matches, currentMatchId, currentPeriod, periodStartTimestamp,
                    extraHalfLength, runningMs, matchType, dataVars, logVars, modalVars>>
     /\ saveAppState

resumeMatch ==
  LET timer == startTimerInterval(timerInterval, liveIntervals)
  IN /\ currentMatchId # NoMatch
     /\ isPaused' = FALSE
     /\ periodStartTimestamp' = now - elapsedTime * 1000
     /\ timerInterval' = timer[1]
     /\ liveIntervals' = timer[2]
     /\ UNCHANGED <<now, matches, currentMatchId, currentPeriod, elapsedTime,
                    extraHalfLength, runningMs, matchType, dataVars, logVars, modalVars>>
     /\ saveAppState

\* an endPeriod that starts play in every playing period it enters
endPeriod_autoStartPlaying ==
  LET finalized == IF ~isPaused
                   THEN ClockSeconds(now, periodStartTimestamp)
                   ELSE elapsedTime
      stopped == stopTimer(timerInterval, liveIntervals)
      next == getNextPeriod(currentPeriod, extraHalfLength)
      autoStart == isPlayingPeriod(next)
      timer == IF autoStart
               THEN startTimerInterval(stopped[1], stopped[2])
               ELSE stopped
  IN /\ currentMatchId # NoMatch
     /\ currentPeriod' = next
     /\ elapsedTime' = IF next # MATCH_OVER THEN 0 ELSE finalized
     /\ isPaused' = ~autoStart
     /\ periodStartTimestamp' = IF autoStart THEN now ELSE periodStartTimestamp
     /\ timerInterval' = timer[1]
     /\ liveIntervals' = timer[2]
     /\ runningMs' = IF next # currentPeriod THEN 0 ELSE runningMs
     /\ UNCHANGED <<now, matches, currentMatchId, extraHalfLength, matchType,
                    dataVars, logVars, modalVars>>
     /\ saveAppState

endPeriod ==
  LET finalized == IF ~isPaused
                   THEN ClockSeconds(now, periodStartTimestamp)
                   ELSE elapsedTime
      stopped == stopTimer(timerInterval, liveIntervals)
      next == getNextPeriod(currentPeriod, extraHalfLength)
      autoStart == next = SECOND_HALF \/ next = EXTRA_SECOND
      timer == IF autoStart
               THEN startTimerInterval(stopped[1], stopped[2])
               ELSE stopped
  IN /\ currentMatchId # NoMatch
     /\ currentPeriod' = next
     /\ elapsedTime' = IF next # MATCH_OVER THEN 0 ELSE finalized
     /\ isPaused' = ~autoStart
     /\ periodStartTimestamp' = IF autoStart THEN now ELSE periodStartTimestamp
     /\ timerInterval' = timer[1]
     /\ liveIntervals' = timer[2]
     /\ runningMs' = IF next # currentPeriod THEN 0 ELSE runningMs
     /\ UNCHANGED <<now, matches, currentMatchId, extraHalfLength, matchType, dataVars, logVars,
                    modalVars>>
     /\ saveAppState

tick_count ==
  /\ liveIntervals # {}
  /\ elapsedTime' = elapsedTime + 1
  /\ UNCHANGED <<now, matches, currentMatchId, timerInterval, liveIntervals,
                 currentPeriod, isPaused, periodStartTimestamp,
                 extraHalfLength, runningMs, matchType, dataVars, storeVars, logVars, modalVars>>

\* the callback of a live interval fires
tick ==
  /\ liveIntervals # {}
  /\ elapsedTime' = ClockSeconds(now, periodStartTimestamp)
  /\ UNCHANGED <<now, matches, currentMatchId, timerInterval, liveIntervals,
                 currentPeriod, isPaused, periodStartTimestamp,
                 extraHalfLength, runningMs, matchType, dataVars, storeVars, logVars, modalVars>>

\* the page is reloaded: init() starts from a fresh appState and loadAppState
\* reads the stored matches.  Every handler stores the match as it leaves it
\* and the interval callback stores nothing, so the stored elapsedTime is the
\* value of the last handler, which the ticks since may have raised.
reload ==
  LET storedMatches == loadData("matches")
      storedPanels == loadData("playerPanels")
      storedLastSelected == loadData("lastSelectedPanels")
  IN /\ currentMatchId' = NoMatch
     /\ timerInterval' = NoTimer
     /\ liveIntervals' = {}
     /\ elapsedTime' \in 0..elapsedTime
     /\ scoreModalData' = <<>>
     /\ foulModalData' = <<>>
     /\ kickoutModalData' = <<>>
     /\ substitutionModalData' = <<>>
     /\ noteModalData' = <<>>
     /\ editingEventId' = NoEvent
     /\ matches' = IF storedMatches = <<>> THEN <<>> ELSE storedMatches[1]
     /\ playerPanels' = IF storedPanels = <<>> THEN <<>> ELSE storedPanels[1]
     /\ lastSelectedPanels' = IF storedLastSelected = <<>> THEN {}
                              ELSE storedLastSelected[1]
     /\ editingMatchId' = NoMatch
     /\ playerInputs' = <<>>
     /\ editingPanelId' = NoPanel
     /\ originalPanelState' = <<>>
     /\ tempPanelPlayers' = <<>>
     /\ currentMatchStats' = <<>>
     /\ UNCHANGED <<now, currentPeriod, isPaused, periodStartTimestamp,
                    extraHalfLength, runningMs, matchType, logVars, rosters,
                    storeVars>>

(***************************** event log ***********************************)
\* the event object the handlers build
Event(id, type, period, timeElapsed, teamId, player1Id, player2Id, shotOutcome, shotType, foulOutcome, cardType, wonKickout, noteText) ==
  [id |-> id, type |-> type, period |-> period, timeElapsed |-> timeElapsed,
   teamId |-> teamId, player1Id |-> player1Id, player2Id |-> player2Id,
   shotOutcome |-> shotOutcome, shotType |-> shotType,
   foulOutcome |-> foulOutcome, cardType |-> cardType,
   wonKickout |-> wonKickout, noteText |-> noteText]

\* x || null for a string x ('' and null are falsy)
OrNull(x) == IF x = "" \/ x = Null THEN Null ELSE x

Patched_restamp(evts, i, e) ==
  [j \in 1..Len(evts) |->
     IF j = i THEN [e EXCEPT !.period = currentPeriod,
                             !.timeElapsed = elapsedTime]
     ELSE evts[j]]

\* the log with the event at index i replaced by e (i = 0: unchanged)
Patched(evts, i, e) ==
  [j \in 1..Len(evts) |-> IF j = i THEN e ELSE evts[j]]

\* match.events.filter((m) => m.id !== id)
RECURSIVE filterOut(_, _)
filterOut(evts, id) ==
  IF evts = <<>> THEN <<>>
  ELSE IF Head(evts).id # id
       THEN <<Head(evts)>> \o filterOut(Tail(evts), id)
       ELSE filterOut(Tail(evts), id)

\* [...match.events].slice().reverse(): a reversed copy, built as
\* Array.prototype.reverse builds it, last element first
RECURSIVE reverse(_)
reverse(evts) ==
  IF evts = <<>> THEN <<>>
  ELSE <<evts[Len(evts)]>> \o reverse(SubSeq(evts, 1, Len(evts) - 1))

push_unshift(e) ==
  /\ events' = <<e>> \o events
  /\ nextId' = nextId + 1

\* match.events.push(event) with an id from generateId()
push(e) ==
  /\ events' = Append(events, e)
  /\ nextId' = nextId + 1

quickAddShot_unguarded(teamKey, outcome) ==
  /\ currentMatchId # NoMatch
  /\ push(Event(nextId, "shot", currentPeriod, elapsedTime, TeamId(teamKey),
                Null, Null, outcome, "fromPlay", Null, Null, Null, Null))
  /\ UNCHANGED <<clockVars, matchType, dataVars, modalVars>>
  /\ saveAppState

quickAddShot(teamKey, outcome) ==
  /\ currentMatchId # NoMatch
  /\ IF ~isPlayingPeriod(currentPeriod)
     THEN UNCHANGED vars
     ELSE /\ push(Event(nextId, "shot", currentPeriod, elapsedTime,
                        TeamId(teamKey), Null, Null, outcome, "fromPlay",
                        Null, Null, Null, Null))
          /\ UNCHANGED <<clockVars, matchType, dataVars, modalVars>>
          /\ saveAppState

\* addEvent(): eventType and form are the values of the add-event form
addEvent(eventType, form) ==
  /\ currentMatchId # NoMatch
  /\ IF \/ ~isPlayingPeriod(currentPeriod)
        \/ (eventType = "note" /\ form.noteText = "")
     THEN UNCHANGED vars
     ELSE LET blank == Event(nextId, eventType, currentPeriod, elapsedTime,
                             Null, Null, Null, Null, Null, Null, Null, Null,
                             Null)
              event ==
                IF eventType = "shot"
                THEN [blank EXCEPT !.teamId = form.teamId,
                                   !.player1Id = OrNull(form.playerId),
                                   !.shotType = form.shotType,
                                   !.shotOutcome = form.shotOutcome]
                ELSE IF eventType = "card"
                THEN [blank EXCEPT !.teamId = form.teamId,
                                   !.player1Id = OrNull(form.playerId),
                                   !.cardType = form.cardType]
                ELSE IF eventType = "foulConceded"
                THEN [blank EXCEPT !.teamId = form.teamId,
                                   !.player1Id = OrNull(form.playerId),
                                   !.foulOutcome = form.foulOutcome]
                ELSE IF eventType = "kickout"
                THEN [blank EXCEPT !.teamId = form.teamId,
                                   !.wonKickout =
                                     IF form.kickoutOutcome = "won"
                                     THEN "true" ELSE "false"]
                ELSE IF eventType = "substitution"
                THEN [blank EXCEPT !.teamId = form.teamId,
                                   !.player1Id = form.playerOut,
                                   !.player2Id = form.playerIn]
                ELSE [blank EXCEPT !.noteText = form.noteText]
          IN /\ push(event)
             /\ UNCHANGED <<clockVars, matchType, dataVars, modalVars>>
             /\ saveAppState

deleteEvent_playing(id) ==
  IF ~isPlayingPeriod(currentPeriod) THEN UNCHANGED vars
  ELSE /\ events' = filterOut(events, id)
       /\ UNCHANGED <<clockVars, matchType, dataVars, nextId, modalVars>>
       /\ saveAppState

\* the delete button of the event `id` in the events list, confirmed
deleteEvent(id) ==
  /\ events' = filterOut(events, id)
  /\ UNCHANGED <<clockVars, matchType, dataVars, nextId, modalVars>>
  /\ saveAppState

(***************************** event modals ********************************)
\* the `initial` argument of the show...Modal functions; a field the caller
\* leaves out is Null (NoEvent, FALSE)
NoInitial ==
  [isEdit |-> FALSE, eventId |-> NoEvent, shotType |-> Null, playerId |-> Null,
   foulType |-> Null, cardType |-> Null, outcome |-> Null,
   playerOffId |-> Null, playerOnId |-> Null, noteText |-> Null]

\* the guard shared by the score, foul, kickout and substitution modals
refusedOutsidePlay(initial) ==
  ~initial.isEdit /\ ~isPlayingPeriod(currentPeriod)

showScoreModal(teamKey, outcome, initial) ==
  /\ currentMatchId # NoMatch
  /\ IF refusedOutsidePlay(initial)
     THEN UNCHANGED vars
     ELSE /\ scoreModalData' =
               <<[teamKey |-> teamKey,
                  outcome |-> outcome,
                  selectedShotType |->
                    IF OrNull(initial.shotType) = Null THEN "fromPlay"
                    ELSE initial.shotType,
                  selectedPlayerId |-> initial.playerId,
                  isEdit |-> initial.isEdit,
                  eventId |-> initial.eventId]>>
          /\ UNCHANGED <<clockVars, matchType, dataVars, storeVars, logVars, foulModalData,
                         kickoutModalData, substitutionModalData,
                         noteModalData, editingEventId>>

\* the shot-type, miss-type and player buttons of the open score modal
selectInScoreModal(outcome, shotType, playerId) ==
  /\ scoreModalData # <<>>
  /\ scoreModalData' =
       <<[scoreModalData[1] EXCEPT !.outcome = outcome,
                                   !.selectedShotType = shotType,
                                   !.selectedPlayerId = playerId]>>
  /\ UNCHANGED <<clockVars, matchType, dataVars, storeVars, logVars, foulModalData,
                 kickoutModalData, substitutionModalData, noteModalData,
                 editingEventId>>

hideScoreModal ==
  /\ scoreModalData' = <<>>
  /\ UNCHANGED <<clockVars, matchType, dataVars, storeVars, logVars, foulModalData,
                 kickoutModalData, substitutionModalData, noteModalData,
                 editingEventId>>

\* saveScoreEvent(): notes is the trimmed value of the notes input
saveScoreEvent(notes) ==
  /\ scoreModalData # <<>>
  /\ LET d == scoreModalData[1]
         i == find(events, d.eventId)
     IN IF currentMatchId = NoMatch
        THEN UNCHANGED logVars
        ELSE IF d.isEdit /\ d.eventId # NoEvent
        THEN /\ events' =
                  IF i = 0 THEN events
                  ELSE Patched(events, i,
                         [events[i] EXCEPT
                            !.teamId = TeamId(d.teamKey),
                            !.player1Id = OrNull(d.selectedPlayerId),
                            !.shotOutcome = d.outcome,
                            !.shotType = d.selectedShotType,
                            !.noteText = OrNull(notes)])
             /\ UNCHANGED nextId
        ELSE push(Event(nextId, "shot", currentPeriod, elapsedTime,
                        TeamId(d.teamKey), OrNull(d.selectedPlayerId), Null,
                        d.outcome, d.selectedShotType, Null, Null, Null,
                        OrNull(notes)))
  /\ scoreModalData' = <<>>
  /\ UNCHANGED <<clockVars, matchType, dataVars, foulModalData, kickoutModalData,
                 substitutionModalData, noteModalData, editingEventId>>
  /\ IF currentMatchId = NoMatch THEN UNCHANGED storeVars ELSE saveAppState

showFoulModal(teamKey, initial) ==
  /\ currentMatchId # NoMatch
  /\ IF refusedOutsidePlay(initial)
     THEN UNCHANGED vars
     ELSE /\ foulModalData' =
               <<[teamKey |-> teamKey,
                  selectedFoulType |->
                    IF OrNull(initial.foulType) = Null THEN "free"
                    ELSE initial.foulType,
                  selectedCardType |->
                    IF OrNull(initial.cardType) = Null THEN "none"
                    ELSE initial.cardType,
                  selectedPlayerId |-> initial.playerId,
                  isEdit |-> initial.isEdit,
                  eventId |-> initial.eventId]>>
          /\ UNCHANGED <<clockVars, matchType, dataVars, storeVars, logVars, scoreModalData,
                         kickoutModalData, substitutionModalData,
                         noteModalData, editingEventId>>

\* the foul-type, card-type and player buttons of the open foul modal
selectInFoulModal(foulType, cardType, playerId) ==
  /\ foulModalData # <<>>
  /\ foulModalData' =
       <<[foulModalData[1] EXCEPT !.selectedFoulType = foulType,
                                  !.selectedCardType = cardType,
                                  !.selectedPlayerId = playerId]>>
  /\ UNCHANGED <<clockVars, matchType, dataVars, storeVars, logVars, scoreModalData,
                 kickoutModalData, substitutionModalData, noteModalData,
                 editingEventId>>

hideFoulModal ==
  /\ foulModalData' = <<>>
  /\ UNCHANGED <<clockVars, matchType, dataVars, storeVars, logVars, scoreModalData,
                 kickoutModalData, substitutionModalData, noteModalData,
                 editingEventId>>

saveFoulEvent(notes) ==
  /\ foulModalData # <<>>
  /\ LET d == foulModalData[1]
         i == find(events, d.eventId)
         card == IF d.selectedCardType # "none" THEN d.selectedCardType
                 ELSE Null
     IN IF currentMatchId = NoMatch
        THEN UNCHANGED logVars
        ELSE IF d.isEdit /\ d.eventId # NoEvent
        THEN /\ events' =
                  IF i = 0 THEN events
                  ELSE Patched(events, i,
                         [events[i] EXCEPT
                            !.teamId = TeamId(d.teamKey),
                            !.player1Id = OrNull(d.selectedPlayerId),
                            !.foulOutcome = d.selectedFoulType,
                            !.cardType = card,
                            !.noteText = OrNull(notes)])
             /\ UNCHANGED nextId
        ELSE push(Event(nextId, "foulConceded", currentPeriod, elapsedTime,
                        TeamId(d.teamKey), OrNull(d.selectedPlayerId), Null,
                        Null, Null, d.selectedFoulType, card, Null,
                        OrNull(notes)))
  /\ foulModalData' = <<>>
  /\ UNCHANGED <<clockVars, matchType, dataVars, scoreModalData, kickoutModalData,
                 substitutionModalData, noteModalData, editingEventId>>
  /\ IF currentMatchId = NoMatch THEN UNCHANGED storeVars ELSE saveAppState

showKickoutModal(teamKey, initial) ==
  /\ currentMatchId # NoMatch
  /\ IF refusedOutsidePlay(initial)
     THEN UNCHANGED vars
     ELSE /\ kickoutModalData' =
               <<[teamKey |-> teamKey,
                  selectedOutcome |->
                    IF OrNull(initial.outcome) = Null THEN "won"
                    ELSE initial.outcome,
                  selectedPlayerId |-> initial.playerId,
                  isEdit |-> initial.isEdit,
                  eventId |-> initial.eventId]>>
          /\ UNCHANGED <<clockVars, matchType, dataVars, storeVars, logVars, scoreModalData,
                         foulModalData, substitutionModalData, noteModalData,
                         editingEventId>>

\* the won/lost and player buttons of the open kickout modal
selectInKickoutModal(outcome, playerId) ==
  /\ kickoutModalData # <<>>
  /\ kickoutModalData' =
       <<[kickoutModalData[1] EXCEPT !.selectedOutcome = outcome,
                                     !.selectedPlayerId = playerId]>>
  /\ UNCHANGED <<clockVars, matchType, dataVars, storeVars, logVars, scoreModalData,
                 foulModalData, substitutionModalData, noteModalData,
                 editingEventId>>

hideKickoutModal ==
  /\ kickoutModalData' = <<>>
  /\ UNCHANGED <<clockVars, matchType, dataVars, storeVars, logVars, scoreModalData,
                 foulModalData, substitutionModalData, noteModalData,
                 editingEventId>>

saveKickoutEvent(notes) ==
  /\ kickoutModalData # <<>>
  /\ LET d == kickoutModalData[1]
         i == find(events, d.eventId)
         won == IF d.selectedOutcome = "won" THEN "true" ELSE "false"
     IN IF currentMatchId = NoMatch
        THEN UNCHANGED logVars
        ELSE IF d.isEdit /\ d.eventId # NoEvent
        THEN /\ events' =
                  IF i = 0 THEN events
                  ELSE Patched(events, i,
                         [events[i] EXCEPT
                            !.teamId = TeamId(d.teamKey),
                            !.player1Id = OrNull(d.selectedPlayerId),
                            !.wonKickout = won,
                            !.noteText = OrNull(notes)])
             /\ UNCHANGED nextId
        ELSE push(Event(nextId, "kickout", currentPeriod, elapsedTime,
                        TeamId(d.teamKey), OrNull(d.selectedPlayerId), Null,
                        Null, Null, Null, Null, won, OrNull(notes)))
  /\ kickoutModalData' = <<>>
  /\ UNCHANGED <<clockVars, matchType, dataVars, scoreModalData, foulModalData,
                 substitutionModalData, noteModalData, editingEventId>>
  /\ IF currentMatchId = NoMatch THEN UNCHANGED storeVars ELSE saveAppState

showSubstitutionModal(teamKey, initial) ==
  /\ currentMatchId # NoMatch
  /\ IF refusedOutsidePlay(initial)
     THEN UNCHANGED vars
     ELSE /\ substitutionModalData' =
               <<[teamKey |-> teamKey,
                  selectedPlayerOffId |-> initial.playerOffId,
                  selectedPlayerOnId |-> initial.playerOnId,
                  isEdit |-> initial.isEdit,
                  eventId |-> initial.eventId]>>
          /\ UNCHANGED <<clockVars, matchType, dataVars, storeVars, logVars, scoreModalData,
                         foulModalData, kickoutModalData, noteModalData,
                         editingEventId>>

\* the player-off and player-on buttons of the open substitution modal
selectInSubstitutionModal(playerOffId, playerOnId) ==
  /\ substitutionModalData # <<>>
  /\ substitutionModalData' =
       <<[substitutionModalData[1] EXCEPT
            !.selectedPlayerOffId = playerOffId,
            !.selectedPlayerOnId = playerOnId]>>
  /\ UNCHANGED <<clockVars, matchType, dataVars, storeVars, logVars, scoreModalData,
                 foulModalData, kickoutModalData, noteModalData,
                 editingEventId>>

hideSubstitutionModal ==
  /\ substitutionModalData' = <<>>
  /\ UNCHANGED <<clockVars, matchType, dataVars, storeVars, logVars, scoreModalData,
                 foulModalData, kickoutModalData, noteModalData,
                 editingEventId>>

saveSubstitutionEvent(notes) ==
  /\ substitutionModalData # <<>>
  /\ LET d == substitutionModalData[1]
         i == find(events, d.eventId)
     IN IF currentMatchId = NoMatch
        THEN UNCHANGED logVars
        ELSE IF d.isEdit /\ d.eventId # NoEvent
        THEN /\ events' =
                  IF i = 0 THEN events
                  ELSE Patched(events, i,
                         [events[i] EXCEPT
                            !.teamId = TeamId(d.teamKey),
                            !.player1Id = OrNull(d.selectedPlayerOffId),
                            !.player2Id = OrNull(d.selectedPlayerOnId),
                            !.noteText = OrNull(notes)])
             /\ UNCHANGED nextId
        ELSE push(Event(nextId, "substitution", currentPeriod, elapsedTime,
                        TeamId(d.teamKey), OrNull(d.selectedPlayerOffId),
                        OrNull(d.selectedPlayerOnId), Null, Null, Null, Null,
                        Null, OrNull(notes)))
  /\ substitutionModalData' = <<>>
  /\ UNCHANGED <<clockVars, matchType, dataVars, scoreModalData, foulModalData,
                 kickoutModalData, noteModalData, editingEventId>>
  /\ IF currentMatchId = NoMatch THEN UNCHANGED storeVars ELSE saveAppState

\* showNoteModal has no playing-period check
showNoteModal(teamKey, initial) ==
  /\ currentMatchId # NoMatch
  /\ noteModalData' =
       <<[teamKey |-> teamKey,
          noteText |-> IF OrNull(initial.noteText) = Null THEN ""
                       ELSE initial.noteText,
          isEdit |-> initial.isEdit,
          eventId |-> initial.eventId]>>
  /\ UNCHANGED <<clockVars, matchType, dataVars, storeVars, logVars, scoreModalData,
                 foulModalData, kickoutModalData, substitutionModalData,
                 editingEventId>>

hideNoteModal ==
  /\ noteModalData' = <<>>
  /\ UNCHANGED <<clockVars, matchType, dataVars, storeVars, logVars, scoreModalData,
                 foulModalData, kickoutModalData, substitutionModalData,
                 editingEventId>>

\* saveNoteEvent(): text is the trimmed value of the note textarea
saveNoteEvent(text) ==
  /\ noteModalData # <<>>
  /\ LET d == noteModalData[1]
         i == find(events, d.eventId)
     IN IF text = "" \/ currentMatchId = NoMatch
        THEN UNCHANGED logVars
        ELSE IF d.isEdit /\ d.eventId # NoEvent
        THEN /\ events' =
                  IF i = 0 THEN events
                  ELSE Patched(events, i,
                         [events[i] EXCEPT !.teamId = TeamId(d.teamKey),
                                           !.noteText = text])
             /\ UNCHANGED nextId
        ELSE push(Event(nextId, "note", currentPeriod, elapsedTime,
                        TeamId(d.teamKey), Null, Null, Null, Null, Null,
                        Null, Null, text))
  /\ noteModalData' = <<>>
  /\ UNCHANGED <<clockVars, matchType, dataVars, scoreModalData, foulModalData,
                 kickoutModalData, substitutionModalData, editingEventId>>
  /\ IF text = "" \/ currentMatchId = NoMatch THEN UNCHANGED storeVars ELSE saveAppState

\* showEditEventForm(eventId): a click on an event of the events list
showEditEventForm(eventId) ==
  /\ currentMatchId # NoMatch
  /\ find(events, eventId) # 0
  /\ LET ev == events[find(events, eventId)]
         teamKey == IF ev.teamId = TeamId("team1") THEN "team1" ELSE "team2"
         edit == [NoInitial EXCEPT !.isEdit = TRUE, !.eventId = ev.id]
     IN IF ev.type = "shot"
        THEN showScoreModal(teamKey, ev.shotOutcome,
               [edit EXCEPT !.shotType = ev.shotType,
                            !.playerId = ev.player1Id])
        ELSE IF ev.type = "foulConceded"
        THEN showFoulModal(teamKey,
               [edit EXCEPT !.foulType = ev.foulOutcome,
                            !.cardType = IF ev.cardType = Null THEN "none"
                                         ELSE ev.cardType,
                            !.playerId = ev.player1Id])
        ELSE IF ev.type = "kickout"
        THEN showKickoutModal(teamKey,
               [edit EXCEPT !.outcome = IF ev.wonKickout = "true" THEN "won"
                                        ELSE "lost",
                            !.playerId = ev.player1Id])
        ELSE IF ev.type = "substitution"
        THEN showSubstitutionModal(teamKey,
               [edit EXCEPT !.playerOffId = ev.player1Id,
                            !.playerOnId = ev.player2Id])
        ELSE IF ev.type = "note"
        THEN showNoteModal(teamKey, [edit EXCEPT !.noteText = ev.noteText])
        ELSE /\ ev.type = "card"
             /\ editingEventId' = eventId
             /\ UNCHANGED <<clockVars, matchType, dataVars, storeVars, logVars, scoreModalData,
                            foulModalData, kickoutModalData,
                            substitutionModalData, noteModalData>>

\* saveEditedEvent(): form holds the values of the edit-event form
saveEditedEvent(form) ==
  /\ currentMatchId # NoMatch
  /\ find(events, editingEventId) # 0
  /\ LET i == find(events, editingEventId)
         ev == events[i]
         edited ==
           IF ev.type = "shot"
           THEN [ev EXCEPT !.teamId = form.teamId,
                           !.player1Id = OrNull(form.playerId),
                           !.shotType = form.shotType,
                           !.shotOutcome = form.shotOutcome]
           ELSE IF ev.type = "card"
           THEN [ev EXCEPT !.teamId = form.teamId,
                           !.player1Id = OrNull(form.playerId),
                           !.cardType = form.cardType]
           ELSE IF ev.type = "foulConceded"
           THEN [ev EXCEPT !.teamId = form.teamId,
                           !.player1Id = OrNull(form.playerId),
                           !.foulOutcome = form.foulOutcome]
           ELSE IF ev.type = "kickout"
           THEN [ev EXCEPT !.teamId = form.teamId,
                           !.wonKickout = IF form.kickoutOutcome = "won"
                                          THEN "true" ELSE "false"]
           ELSE IF ev.type = "substitution"
           THEN [ev EXCEPT !.teamId = form.teamId,
                           !.player1Id = form.playerOut,
                           !.player2Id = form.playerIn]
           ELSE IF ev.type = "note"
           THEN [ev EXCEPT !.noteText = form.noteText]
           ELSE ev
     IN events' = Patched(events, i, edited)
  /\ editingEventId' = NoEvent
  /\ UNCHANGED <<clockVars, matchType, dataVars, nextId, scoreModalData, foulModalData,
                 kickoutModalData, substitutionModalData, noteModalData>>
  /\ saveAppState

cancelEditEvent ==
  /\ editingEventId' = NoEvent
  /\ UNCHANGED <<clockVars, matchType, dataVars, storeVars, logVars, scoreModalData, foulModalData,
                 kickoutModalData, substitutionModalData, noteModalData>>

(***************************** score folds *********************************)
\* computeTeamScore(match, teamKey), the forEach written as a recursion
RECURSIVE teamScoreFrom(_, _, _, _)
teamScoreFrom(evts, teamKey, goals, points) ==
  IF evts = <<>>
  THEN [goals |-> goals, points |-> points, total |-> goals * 3 + points]
  ELSE LET event == Head(evts)
           counts == event.type = "shot" /\ event.teamId = TeamId(teamKey)
       IN IF counts /\ event.shotOutcome = "goal"
          THEN teamScoreFrom(Tail(evts), teamKey, goals + 1, points)
          ELSE IF counts /\ event.shotOutcome = "point"
          THEN teamScoreFrom(Tail(evts), teamKey, goals, points + 1)
          ELSE IF counts /\ event.shotOutcome = "twoPointer"
          THEN teamScoreFrom(Tail(evts), teamKey, goals, points + 2)
          ELSE teamScoreFrom(Tail(evts), teamKey, goals, points)

RECURSIVE teamScoreFrom_twoAsOne(_, _, _, _)
teamScoreFrom_twoAsOne(evts, teamKey, goals, points) ==
  IF evts = <<>>
  THEN [goals |-> goals, points |-> points, total |-> goals * 3 + points]
  ELSE LET event == Head(evts)
           counts == event.type = "shot" /\ event.teamId = TeamId(teamKey)
       IN IF counts /\ event.shotOutcome = "goal"
          THEN teamScoreFrom_twoAsOne(Tail(evts), teamKey, goals + 1, points)
          ELSE IF counts /\ event.shotOutcome \in {"point", "twoPointer"}
          THEN teamScoreFrom_twoAsOne(Tail(evts), teamKey, goals, points + 1)
          ELSE teamScoreFrom_twoAsOne(Tail(evts), teamKey, goals, points)

computeTeamScore_twoAsOne(evts, teamKey) ==
  teamScoreFrom_twoAsOne(evts, teamKey, 0, 0)

computeTeamScore(evts, teamKey) == teamScoreFrom(evts, teamKey, 0, 0)

\* the accumulators of renderEventsList after one more event
runningStep(acc, ev) ==
  IF ev.type # "shot" THEN acc
  ELSE IF ev.teamId = TeamId("team1")
  THEN (IF ev.shotOutcome = "goal" THEN [acc EXCEPT !.t1Goals = @ + 1]
        ELSE IF ev.shotOutcome = "point" THEN [acc EXCEPT !.t1Points = @ + 1]
        ELSE IF ev.shotOutcome = "twoPointer"
        THEN [acc EXCEPT !.t1Points = @ + 2]
        ELSE acc)
  ELSE IF ev.teamId = TeamId("team2")
  THEN (IF ev.shotOutcome = "goal" THEN [acc EXCEPT !.t2Goals = @ + 1]
        ELSE IF ev.shotOutcome = "point" THEN [acc EXCEPT !.t2Points = @ + 1]
        ELSE IF ev.shotOutcome = "twoPointer"
        THEN [acc EXCEPT !.t2Points = @ + 2]
        ELSE acc)
  ELSE acc

\* the scoreByEventId object renderEventsList builds: event id -> totals
RECURSIVE scoreByEventIdFrom(_, _, _)
scoreByEventIdFrom(evts, acc, map) ==
  IF evts = <<>> THEN map
  ELSE LET ev == Head(evts)
           next == runningStep(acc, ev)
       IN scoreByEventIdFrom(Tail(evts), next,
            [id \in DOMAIN map \cup {ev.id} |->
               IF id = ev.id THEN next ELSE map[id]])

RECURSIVE scoreByEventIdFrom_stale(_, _, _)
scoreByEventIdFrom_stale(evts, acc, map) ==
  IF evts = <<>> THEN map
  ELSE LET ev == Head(evts)
           next == runningStep(acc, ev)
       IN scoreByEventIdFrom_stale(Tail(evts), next,
            [id \in DOMAIN map \cup {ev.id} |->
               IF id = ev.id THEN acc ELSE map[id]])

scoreByEventId_stale(evts) ==
  scoreByEventIdFrom_stale(evts,
    [t1Goals |-> 0, t1Points |-> 0, t2Goals |-> 0, t2Points |-> 0], <<>>)

scoreByEventId(evts) ==
  scoreByEventIdFrom(evts,
    [t1Goals |-> 0, t1Points |-> 0, t2Goals |-> 0, t2Points |-> 0], <<>>)

\* shots.filter(s => s.shotOutcome === outcome).length in calculateTeamStats
shotCount(evts, teamKey, outcome) ==
  Cardinality({i \in 1..Len(evts) :
                 /\ evts[i].teamId = TeamId(teamKey)
                 /\ evts[i].type = "shot"
                 /\ evts[i].shotOutcome = outcome})

calculateTeamStats_ungated(evts, mType, teamKey) ==
  LET goals == shotCount(evts, teamKey, "goal")
      points == shotCount(evts, teamKey, "point")
      twoPointers == shotCount(evts, teamKey, "twoPointer")
  IN [goals |-> goals, points |-> points, twoPointers |-> twoPointers,
      total |-> goals * 3 + points + twoPointers * 2]

\* the score part of StatsCalculator.calculateTeamStats(match, teamKey)
calculateTeamStats(evts, mType, teamKey) ==
  LET goals == shotCount(evts, teamKey, "goal")
      points == shotCount(evts, teamKey, "point")
      twoPointers == shotCount(evts, teamKey, "twoPointer")
      base == goals * 3 + points
  IN [goals |-> goals, points |-> points, twoPointers |-> twoPointers,
      total |-> IF mType = "football" \/ mType = "ladies_football"
                THEN base + twoPointers * 2
                ELSE base]

\* team.name in the statistics: the two names entered in the match form
TeamName(teamKey) == IF teamKey = "team1" THEN "Team One" ELSE "Team Two"

\* Math.abs
Abs(n) == IF n < 0 THEN -n ELSE n

calculateMatchSummary_tieToFirst(evts, mType) ==
  LET total1 == calculateTeamStats(evts, mType, "team1").total
      total2 == calculateTeamStats(evts, mType, "team2").total
  IN [winner |-> IF total1 >= total2 THEN TeamName("team1")
                 ELSE TeamName("team2"),
      margin |-> Abs(total1 - total2)]

\* the winner and margin of StatsCalculator.calculateMatchSummary(match)
calculateMatchSummary(evts, mType) ==
  LET total1 == calculateTeamStats(evts, mType, "team1").total
      total2 == calculateTeamStats(evts, mType, "team2").total
  IN [winner |-> IF total1 > total2 THEN TeamName("team1")
                 ELSE IF total2 > total1 THEN TeamName("team2")
                 ELSE "Draw",
      margin |-> Abs(total1 - total2)]

(***************************** player statistics ***************************)
\* the value of a property an object does not have
Undefined == "undefined"

\* event[name]: Undefined when the event object has no such property
Property(event, name) ==
  IF name \in DOMAIN event THEN event[name] ELSE Undefined

\* !value, for the values a player id takes
NoValue(value) == value \in {Undefined, Null, ""}

\* ids of the players of team.players, in roster order
Roster == <<"p7", "p8">>

\* teamEvents in calculateTeamStats: the events of the team, in log order
teamEventsOf(evts, teamKey) ==
  SelectSeq(evts, LAMBDA e : e.teamId = TeamId(teamKey))

\* calculatePlayerStats, "Initialize all players": the entry of one player
initialPlayerStats(playerId) ==
  [id |-> playerId, goals |-> 0, points |-> 0, twoPointers |-> 0,
   totalScore |-> 0, shots |-> 0, fouls |-> 0, cards |-> 0]

\* calculatePlayerStats, "Process events": one pass of the forEach callback
processEvent(playerMap, event) ==
  LET playerId == Property(event, "playerId")
      outcome == Property(event, "outcome")
  IN IF NoValue(playerId) \/ playerId \notin DOMAIN playerMap THEN playerMap
     ELSE LET player == playerMap[playerId]
              updated ==
                IF event.type = "shot"
                THEN LET shot == [player EXCEPT !.shots = @ + 1]
                     IN IF outcome = "goal"
                        THEN [shot EXCEPT !.goals = @ + 1,
                                          !.totalScore = @ + 3]
                        ELSE IF outcome = "point"
                        THEN [shot EXCEPT !.points = @ + 1,
                                          !.totalScore = @ + 1]
                        ELSE IF outcome = "twoPointer"
                        THEN [shot EXCEPT !.twoPointers = @ + 1,
                                          !.totalScore = @ + 2]
                        ELSE shot
                ELSE IF event.type = "foulConceded"
                THEN [player EXCEPT !.fouls = @ + 1]
                ELSE IF event.type = "card"
                THEN [player EXCEPT !.cards = @ + 1]
                ELSE player
          IN [playerMap EXCEPT ![playerId] = updated]

RECURSIVE processEvents(_, _)
processEvents(playerMap, teamEvents) ==
  IF teamEvents = <<>> THEN playerMap
  ELSE processEvents(processEvent(playerMap, Head(teamEvents)),
                     Tail(teamEvents))

\* StatsCalculator.calculatePlayerStats(teamEvents, players): the entries of
\* the players with a shot, foul or card, in roster order
calculatePlayerStats(teamEvents, players) ==
  LET playerMap ==
        processEvents([id \in {players[i] : i \in 1..Len(players)} |->
                         initialPlayerStats(id)], teamEvents)
      values == [i \in 1..Len(players) |-> playerMap[players[i]]]
  IN SelectSeq(values, LAMBDA p : p.shots > 0 \/ p.fouls > 0 \/ p.cards > 0)

\* Array.prototype.sort((a, b) => b.totalScore - a.totalScore): stable
\* insertion of p into a sequence already sorted
RECURSIVE insertByScore(_, _)
insertByScore(sorted, p) ==
  IF sorted = <<>> THEN <<p>>
  ELSE IF Head(sorted).totalScore >= p.totalScore
       THEN <<Head(sorted)>> \o insertByScore(Tail(sorted), p)
       ELSE <<p>> \o sorted

RECURSIVE sortByScore(_)
sortByScore(stats) ==
  IF stats = <<>> THEN <<>>
  ELSE insertByScore(sortByScore(SubSeq(stats, 1, Len(stats) - 1)),
                     stats[Len(stats)])

\* StatsCalculator.getTopScorers(playerStats)
getTopScorers(playerStats) ==
  LET sorted == sortByScore(SelectSeq(playerStats,
                                      LAMBDA p : p.totalScore > 0))
  IN SubSeq(sorted, 1, IF Len(sorted) < 5 THEN Len(sorted) ELSE 5)

(***************************** shooting accuracy ***************************)
isSuccessful_goalsOnly(outcome) == outcome = "goal"

\* the filter of the successful shots: goal, point or two-pointer
isSuccessful(outcome) ==
  outcome = "goal" \/ outcome = "point" \/ outcome = "twoPointer"

\* Math.round(n / d) for integers n >= 0 and d > 0, the quotient taken
\* exactly: halves round up (toFixed rounds the same way at its digit)
MathRound(n, d) == (2 * n + d) \div (2 * d)

\* the shot events of a team
teamShots(evts, teamKey) ==
  SelectSeq(evts, LAMBDA e : e.type = "shot" /\ e.teamId = TeamId(teamKey))

\* calculateTeamShootingComparison(match)[teamKey]
calculateTeamShootingComparison(evts, teamKey) ==
  LET shots == teamShots(evts, teamKey)
      successful == Len(SelectSeq(shots, LAMBDA s : isSuccessful(s.shotOutcome)))
  IN [accuracy |-> IF Len(shots) > 0 THEN MathRound(successful * 100, Len(shots))
                   ELSE 0,
      successful |-> successful, total |-> Len(shots)]

\* the shooting part of StatsCalculator.calculateTeamStats(match, teamKey);
\* accuracy is the number toFixed(1) prints, in tenths of a percent
teamShooting(evts, teamKey) ==
  LET shots == teamShots(evts, teamKey)
      successfulShots == shotCount(evts, teamKey, "goal")
                           + shotCount(evts, teamKey, "point")
                           + shotCount(evts, teamKey, "twoPointer")
  IN [total |-> Len(shots), successful |-> successfulShots,
      accuracy |-> IF Len(shots) > 0
                   THEN MathRound(successfulShots * 1000, Len(shots))
                   ELSE 0]

\* the playerStats key of a shot in calculatePlayerShootingStats
shooterOf(event) ==
  IF event.player1Id = Null \/ event.player1Id = ""
       \/ \A i \in 1..Len(Roster) : Roster[i] # event.player1Id
  THEN "unknown"
  ELSE event.player1Id

\* calculatePlayerShootingStats(match, teamName), by playerStats key,
\* before the sort
calculatePlayerShootingStats(evts, teamKey) ==
  LET allShots == teamShots(evts, teamKey)
      keys == {shooterOf(allShots[i]) : i \in 1..Len(allShots)}
  IN [k \in keys |->
        LET mine == SelectSeq(allShots, LAMBDA e : shooterOf(e) = k)
            successfulShots ==
              Len(SelectSeq(mine, LAMBDA e : e.shotOutcome \in {"goal", "point", "twoPointer"}))
        IN [totalShots |-> Len(mine), successfulShots |-> successfulShots,
            accuracy |-> IF Len(mine) > 0
                         THEN MathRound(successfulShots * 100, Len(mine))
                         ELSE 0]]

(***************************** score display *******************************)
\* n.toString().padStart(2, '0') for n >= 0
padStart(n) == IF n < 10 THEN "0" \o ToString(n) ELSE ToString(n)

\* score.display of StatsCalculator.calculateTeamStats(match, teamKey)
scoreDisplay(evts, mType, teamKey) ==
  LET score == calculateTeamStats(evts, mType, teamKey)
  IN IF mType = "football" \/ mType = "ladies_football"
     THEN ToString(score.goals) \o "-"
            \o padStart(score.points + score.twoPointers * 2)
     ELSE ToString(score.goals) \o "-" \o padStart(score.points)

\* formatScoreDisplay(score, isFootball); score.twoPointers is a count, as
\* calculatePlayerScorers accumulates it
formatScoreDisplay(score, isFootball) ==
  IF isFootball
  THEN ToString(score.goals) \o "-"
         \o padStart(score.points + score.twoPointers)
  ELSE ToString(score.goals) \o "-" \o padStart(score.points)

(***************************** statistics view *****************************)
\* StatsCalculator.calculateMatchStats(match): its scores and its summary
calculateMatchStats(evts, mType) ==
  [teams |-> [t \in TeamKeys |-> calculateTeamStats(evts, mType, t)],
   summary |-> calculateMatchSummary(evts, mType)]

showMatchStats_reverseInPlace ==
  /\ currentMatchId # NoMatch
  /\ events' = reverse(events)
  /\ currentMatchStats' = <<calculateMatchStats(events, matchType)>>
  /\ UNCHANGED <<clockVars, matchType, nextId, modalVars, editingMatchId,
                 rosters, playerInputs, playerPanels, lastSelectedPanels,
                 editingPanelId, originalPanelState, tempPanelPlayers,
                 storeVars>>

\* showMatchStats(): the statistics button of the open match
showMatchStats ==
  /\ currentMatchId # NoMatch
  /\ currentMatchStats' = <<calculateMatchStats(events, matchType)>>
  /\ UNCHANGED <<clockVars, matchType, logVars, modalVars, editingMatchId,
                 rosters, playerInputs, playerPanels, lastSelectedPanels,
                 editingPanelId, originalPanelState, tempPanelPlayers,
                 storeVars>>

\* hideMatchStats(): the statistics modal is closed
hideMatchStats ==
  /\ currentMatchStats' = <<>>
  /\ UNCHANGED <<clockVars, matchType, logVars, modalVars, editingMatchId,
                 rosters, playerInputs, playerPanels, lastSelectedPanels,
                 editingPanelId, originalPanelState, tempPanelPlayers,
                 storeVars>>

(***************************** generated ids *******************************)
\* the values of Math.floor(Math.random() * 1000000) explored
Draws == {0, 1}

\* generateId() called at time ms when Math.random() gives the suffix random:
\* the string `${ms}-${random}`, as the pair it is written from
generateId(ms, random) == <<ms, random>>

\* quickAddShot(teamKey, outcome) with the id generateId() returns for the
\* given draw of Math.random()
quickAddShotWithId(teamKey, outcome, random) ==
  /\ currentMatchId # NoMatch
  /\ IF ~isPlayingPeriod(currentPeriod)
     THEN UNCHANGED vars
     ELSE /\ push(Event(generateId(now, random), "shot", currentPeriod,
                        elapsedTime, TeamId(teamKey), Null, Null, outcome,
                        "fromPlay", Null, Null, Null, Null))
          /\ UNCHANGED <<clockVars, matchType, dataVars, modalVars>>
          /\ saveAppState

(***************************** rosters *************************************)
\* what the roster, panel and import handlers leave alone of the open match
viewVars ==
  <<now, currentMatchId, timerInterval, liveIntervals, currentPeriod,
    elapsedTime, isPaused, periodStartTimestamp, extraHalfLength, runningMs,
    matchType, events, modalVars, currentMatchStats>>

panelEditVars == <<editingPanelId, originalPanelState, tempPanelPlayers>>

\* String.prototype.trim() on the texts the model types
trim(value) ==
  IF value = " " THEN ""
  ELSE IF value = " Bob" THEN "Bob"
  ELSE value

\* showEditPlayers(teamKey): one input per player of the team, in jersey
\* order, holding the player's id, team, jersey number and current name
showEditPlayers(teamKey) ==
  LET RECURSIVE insert(_, _)
      insert(sorted, input) ==
        IF sorted = <<>> THEN <<input>>
        ELSE LET last == sorted[Len(sorted)]
             IN IF last.jerseyNumber <= input.jerseyNumber
                THEN Append(sorted, input)
                ELSE Append(insert(SubSeq(sorted, 1, Len(sorted) - 1), input),
                            last)
      RECURSIVE sort(_)
      sort(inputs) ==
        IF inputs = <<>> THEN <<>>
        ELSE insert(sort(SubSeq(inputs, 1, Len(inputs) - 1)),
                    inputs[Len(inputs)])
      players == rosters[teamKey]
  IN IF currentMatchId = NoMatch THEN UNCHANGED vars
     ELSE /\ playerInputs' =
               sort([i \in 1..Len(players) |->
                       [playerId |-> players[i].id, teamKey |-> teamKey,
                        jerseyNumber |-> players[i].jerseyNumber,
                        value |-> players[i].name]])
          /\ UNCHANGED <<viewVars, matches, nextId, editingMatchId, rosters,
                         playerPanels, lastSelectedPanels, panelEditVars,
                         storeVars>>

\* the user types value into the index-th input of the edit-players view
typePlayerName(index, value) ==
  /\ index \in 1..Len(playerInputs)
  /\ playerInputs' = [playerInputs EXCEPT ![index].value = value]
  /\ UNCHANGED <<viewVars, matches, nextId, editingMatchId, rosters,
                 playerPanels, lastSelectedPanels, panelEditVars, storeVars>>

\* the change listener of the panel dropdown in showPlayerSelectionDropdown:
\* remembers the panel chosen for the team of the open match, or forgets it
panelDropdownChange(teamKey, selectedPanelId) ==
  LET key == <<currentMatchId, teamKey>>
      others == {s \in lastSelectedPanels : s.key # key}
  IN /\ currentMatchId # NoMatch
     /\ lastSelectedPanels' =
          IF selectedPanelId = NoPanel THEN others
          ELSE others \cup {[key |-> key, panel |-> selectedPanelId]}
     /\ UNCHANGED <<viewVars, matches, nextId, editingMatchId, rosters,
                    playerInputs, playerPanels, panelEditVars>>
     /\ saveAppState

\* selectPlayerForJersey(teamKey, playerId, jerseyNumber, playerName): the
\* name goes into the first input with that player id and jersey number
selectPlayerForJersey(teamKey, playerId, jerseyNumber, playerName) ==
  LET matching == {i \in 1..Len(playerInputs) :
                     /\ playerInputs[i].playerId = playerId
                     /\ playerInputs[i].jerseyNumber = jerseyNumber}
  IN /\ playerInputs' =
          IF matching = {} THEN playerInputs
          ELSE LET i == CHOOSE j \in matching : \A k \in matching : j <= k
               IN [playerInputs EXCEPT ![i].value = playerName]
     /\ UNCHANGED <<viewVars, matches, nextId, editingMatchId, rosters,
                    playerPanels, lastSelectedPanels, panelEditVars, storeVars>>

\* the rosters after the forEach of savePlayerChanges over the inputs: a
\* player found by an input's team and id (find gives the first with the id)
\* takes the trimmed value of the last such input
renamed(rs, inputs) ==
  [t \in TeamKeys |->
     [i \in 1..Len(rs[t]) |->
        LET hits == {k \in 1..Len(inputs) :
                       /\ inputs[k].teamKey = t
                       /\ inputs[k].playerId = rs[t][i].id
                       /\ find(rs[t], inputs[k].playerId) = i}
        IN IF hits = {} THEN rs[t][i]
           ELSE LET last == CHOOSE k \in hits : \A h \in hits : h <= k
                IN [rs[t][i] EXCEPT !.name = trim(inputs[last].value)]]]

\* savePlayerChanges with the filter of the panel editor applied to the
\* roster: players left without a name are dropped
savePlayerChanges_dropEmpty ==
  IF currentMatchId = NoMatch THEN UNCHANGED vars
  ELSE /\ rosters' =
            [t \in TeamKeys |->
               SelectSeq(renamed(rosters, playerInputs)[t],
                         LAMBDA p : p.name # "")]
       /\ UNCHANGED <<viewVars, matches, nextId, editingMatchId,
                      playerInputs, playerPanels, lastSelectedPanels,
                      panelEditVars>>
       /\ saveAppState

\* savePlayerChanges(): each input's trimmed value becomes the name of the
\* player with the input's id in the input's team; then the save
savePlayerChanges ==
  IF currentMatchId = NoMatch THEN UNCHANGED vars
  ELSE /\ rosters' = renamed(rosters, playerInputs)
       /\ UNCHANGED <<viewVars, matches, nextId, editingMatchId,
                      playerInputs, playerPanels, lastSelectedPanels,
                      panelEditVars>>
       /\ saveAppState

(***************************** match form **********************************)
\* showEditMatchForm()
showEditMatchForm ==
  IF find(matches, currentMatchId) = 0 THEN UNCHANGED vars
  ELSE /\ editingMatchId' = currentMatchId
       /\ UNCHANGED <<clockVars, matchType, logVars, modalVars, rosters,
                      playerInputs, playerPanels, lastSelectedPanels,
                      panelEditVars, currentMatchStats, storeVars>>

\* handleMatchFormSubmit(event) with the form's competition, match type and
\* team names.  Editing: the fields of the match are overwritten, its teams
\* keep their ids and players, and the match is shown again.  Otherwise a
\* new match joins the list.
handleMatchFormSubmit(competition, newMatchType, team1Name, team2Name) ==
  LET index == find(matches, editingMatchId)
      stopped == stopTimer(timerInterval, liveIntervals)
      timer == IF ~isPaused /\ isPlayingPeriod(currentPeriod)
               THEN startTimerInterval(stopped[1], stopped[2])
               ELSE stopped
  IN IF trim(team1Name) = "" \/ trim(team2Name) = "" THEN UNCHANGED vars
     ELSE IF editingMatchId # NoMatch
     THEN IF index = 0 THEN UNCHANGED vars
          ELSE /\ matches' = [matches EXCEPT
                                ![index].competition = trim(competition)]
               /\ matchType' = newMatchType
               /\ currentMatchId' = editingMatchId
               /\ timerInterval' = timer[1]
               /\ liveIntervals' = timer[2]
               /\ editingMatchId' = NoMatch
               /\ UNCHANGED <<now, currentPeriod, elapsedTime, isPaused,
                              periodStartTimestamp, extraHalfLength,
                              runningMs, logVars, modalVars, rosters,
                              playerInputs, playerPanels, lastSelectedPanels,
                              panelEditVars, currentMatchStats>>
               /\ saveAppState
     ELSE /\ matches' = Append(matches,
                               [id |-> "n" \o ToString(nextId),
                                competition |-> trim(competition),
                                team1 |-> TRUE, team2 |-> TRUE])
          /\ nextId' = nextId + 1
          /\ UNCHANGED <<viewVars, editingMatchId, rosters, playerInputs,
                         playerPanels, lastSelectedPanels, panelEditVars>>
          /\ saveAppState

(***************************** player panels *******************************)
\* players.filter(p => p.name.trim() !== '').sort(by lower-cased name); the
\* sort is stable, and of the names the model types
\* a.name.toLowerCase().localeCompare(b.name.toLowerCase()) puts "Ann"
\* before the others
sortedPanelPlayers(players) ==
  LET nameRank(name) == IF name = "Ann" THEN 1 ELSE 2
      RECURSIVE insert(_, _)
      insert(sorted, p) ==
        IF sorted = <<>> THEN <<p>>
        ELSE IF nameRank(p.name) < nameRank(Head(sorted).name)
             THEN <<p>> \o sorted
             ELSE <<Head(sorted)>> \o insert(Tail(sorted), p)
      RECURSIVE sort(_)
      sort(ps) == IF ps = <<>> THEN <<>>
                  ELSE insert(sort(SubSeq(ps, 1, Len(ps) - 1)), ps[Len(ps)])
  IN sort(SelectSeq(players, LAMBDA p : trim(p.name) # ""))

\* showPanelEditor(panelId); NoPanel for a new panel
showPanelEditor(panelId) ==
  LET index == find(playerPanels, panelId)
  IN IF panelId # NoPanel
     THEN IF index = 0 THEN UNCHANGED vars
          ELSE /\ editingPanelId' = panelId
               /\ originalPanelState' =
                    <<[name |-> playerPanels[index].name,
                       players |-> playerPanels[index].players]>>
               /\ UNCHANGED <<viewVars, matches, nextId, editingMatchId,
                              rosters, playerInputs, playerPanels,
                              lastSelectedPanels, tempPanelPlayers,
                              storeVars>>
     ELSE /\ editingPanelId' = NoPanel
          /\ originalPanelState' = <<>>
          /\ tempPanelPlayers' = <<<<>>>>
          /\ UNCHANGED <<viewVars, matches, nextId, editingMatchId, rosters,
                         playerInputs, playerPanels, lastSelectedPanels,
                         storeVars>>

\* addPlayerToPanel(): a nameless player joins the panel being edited, in
\* the stored panel itself or in the temporary list of a new panel
addPlayerToPanel ==
  LET index == find(playerPanels, editingPanelId)
      player == [id |-> nextId, name |-> ""]
  IN IF editingPanelId # NoPanel
     THEN IF index = 0 THEN UNCHANGED vars
          ELSE /\ playerPanels' =
                    [playerPanels EXCEPT ![index].players = Append(@, player)]
               /\ nextId' = nextId + 1
               /\ UNCHANGED <<viewVars, matches, editingMatchId, rosters,
                              playerInputs, lastSelectedPanels, panelEditVars,
                              storeVars>>
     ELSE /\ tempPanelPlayers' =
               <<Append(IF tempPanelPlayers = <<>> THEN <<>>
                        ELSE tempPanelPlayers[1], player)>>
          /\ nextId' = nextId + 1
          /\ UNCHANGED <<viewVars, matches, editingMatchId, rosters,
                         playerInputs, playerPanels, lastSelectedPanels,
                         editingPanelId, originalPanelState, storeVars>>

\* removePanelPlayer(index) from a row of the rendered list
removePanelPlayer(index) ==
  LET p == find(playerPanels, editingPanelId)
  IN IF editingPanelId # NoPanel
     THEN IF p = 0 THEN UNCHANGED vars
          ELSE /\ index \in 1..Len(playerPanels[p].players)
               /\ playerPanels' =
                    [playerPanels EXCEPT ![p].players = splice(@, index)]
               /\ UNCHANGED <<viewVars, matches, nextId, editingMatchId,
                              rosters, playerInputs, lastSelectedPanels,
                              panelEditVars, storeVars>>
     ELSE /\ tempPanelPlayers # <<>>
          /\ index \in 1..Len(tempPanelPlayers[1])
          /\ tempPanelPlayers' = <<splice(tempPanelPlayers[1], index)>>
          /\ UNCHANGED <<viewVars, matches, nextId, editingMatchId, rosters,
                         playerInputs, playerPanels, lastSelectedPanels,
                         editingPanelId, originalPanelState, storeVars>>

\* updatePanelPlayerName(index, newName) from the input of a rendered row
updatePanelPlayerName(index, newName) ==
  LET p == find(playerPanels, editingPanelId)
  IN IF editingPanelId # NoPanel
     THEN IF p = 0 THEN UNCHANGED vars
          ELSE /\ index \in 1..Len(playerPanels[p].players)
               /\ playerPanels' =
                    [playerPanels EXCEPT ![p].players[index].name = newName]
               /\ UNCHANGED <<viewVars, matches, nextId, editingMatchId,
                              rosters, playerInputs, lastSelectedPanels,
                              panelEditVars, storeVars>>
     ELSE /\ tempPanelPlayers # <<>>
          /\ index \in 1..Len(tempPanelPlayers[1])
          /\ tempPanelPlayers' =
               <<[tempPanelPlayers[1] EXCEPT ![index].name = newName]>>
          /\ UNCHANGED <<viewVars, matches, nextId, editingMatchId, rosters,
                         playerInputs, playerPanels, lastSelectedPanels,
                         editingPanelId, originalPanelState, storeVars>>

\* savePanelEditor() with the text of the panel-name input
savePanelEditor(nameInput) ==
  LET panelName == trim(nameInput)
      p == find(playerPanels, editingPanelId)
      players == IF tempPanelPlayers = <<>> THEN <<>> ELSE tempPanelPlayers[1]
  IN IF panelName = "" THEN UNCHANGED vars
     ELSE IF editingPanelId # NoPanel
     THEN IF p = 0 THEN UNCHANGED vars
          ELSE /\ playerPanels' =
                    [playerPanels EXCEPT
                       ![p].name = panelName,
                       ![p].players = sortedPanelPlayers(@)]
               /\ editingPanelId' = NoPanel
               /\ UNCHANGED <<viewVars, matches, nextId, editingMatchId,
                              rosters, playerInputs, lastSelectedPanels,
                              originalPanelState, tempPanelPlayers>>
               /\ saveAppState
     ELSE /\ playerPanels' =
               Append(playerPanels,
                      [id |-> nextId, name |-> panelName,
                       players |-> sortedPanelPlayers(players)])
          /\ nextId' = nextId + 1
          /\ tempPanelPlayers' = <<>>
          /\ editingPanelId' = NoPanel
          /\ UNCHANGED <<viewVars, matches, editingMatchId, rosters,
                         playerInputs, lastSelectedPanels,
                         originalPanelState>>
          /\ saveAppState

\* a cancelPanelEditor() that closes the editor and restores nothing
cancelPanelEditor_keepEdits ==
  /\ editingPanelId' = NoPanel
  /\ originalPanelState' = <<>>
  /\ tempPanelPlayers' = <<>>
  /\ UNCHANGED <<viewVars, matches, nextId, editingMatchId, rosters,
                 playerInputs, playerPanels, lastSelectedPanels, storeVars>>

\* cancelPanelEditor(): the stored panel gets back the name and the players
\* it had when the editor opened; nothing is saved
cancelPanelEditor ==
  LET p == find(playerPanels, editingPanelId)
  IN /\ playerPanels' =
          IF editingPanelId # NoPanel /\ originalPanelState # <<>> /\ p # 0
          THEN [playerPanels EXCEPT
                  ![p].name = originalPanelState[1].name,
                  ![p].players = originalPanelState[1].players]
          ELSE playerPanels
     /\ editingPanelId' = NoPanel
     /\ originalPanelState' = <<>>
     /\ tempPanelPlayers' = <<>>
     /\ UNCHANGED <<viewVars, matches, nextId, editingMatchId, rosters,
                    playerInputs, lastSelectedPanels, storeVars>>

\* a deletePanelWithConfirm that follows the panel into the matches: the
\* roster names that are names of the panel go back to the default
deletePanelWithConfirm_cascade(panelId) ==
  LET index == find(playerPanels, panelId)
      names == {playerPanels[index].players[j].name :
                  j \in 1..Len(playerPanels[index].players)}
  IN IF index = 0 THEN UNCHANGED vars
     ELSE /\ playerPanels' = splice(playerPanels, index)
          /\ rosters' =
               [t \in TeamKeys |->
                  [i \in 1..Len(rosters[t]) |->
                     IF rosters[t][i].name \in names
                     THEN [rosters[t][i] EXCEPT !.name = "No." \o ToString(i)]
                     ELSE rosters[t][i]]]
          /\ UNCHANGED <<viewVars, matches, nextId, editingMatchId,
                         playerInputs, lastSelectedPanels, panelEditVars>>
          /\ saveAppState

\* deletePanelWithConfirm(panelId), the confirmation given
deletePanelWithConfirm(panelId) ==
  LET index == find(playerPanels, panelId)
  IN IF index = 0 THEN UNCHANGED vars
     ELSE /\ playerPanels' = splice(playerPanels, index)
          /\ UNCHANGED <<viewVars, matches, nextId, editingMatchId, rosters,
                         playerInputs, lastSelectedPanels, panelEditVars>>
          /\ saveAppState

(***************************** import **************************************)
\* the success field of the result of DataManager.importData for doc: false
\* when one of the two validations throws, true otherwise (saveData catches
\* the failures of both stores)
importSuccess(doc) ==
  /\ doc.matches # <<>>
  /\ \A i \in 1..Len(doc.matches[1]) :
       LET m == doc.matches[1][i]
       IN m.id # "" /\ m.team1 /\ m.team2

\* an importData that validates each match as it pushes it: the new matches
\* listed before the first invalid one stay in appState.matches
importData_pushWhileValidating(doc) ==
  LET existingIds == {matches[i].id : i \in 1..Len(matches)}
      existingPanelIds == {playerPanels[i].id : i \in 1..Len(playerPanels)}
      valid(m) == m.id # "" /\ m.team1 /\ m.team2
      firstInvalid ==
        IF \E i \in 1..Len(doc.matches[1]) : ~valid(doc.matches[1][i])
        THEN CHOOSE i \in 1..Len(doc.matches[1]) :
               /\ ~valid(doc.matches[1][i])
               /\ \A j \in 1..(i - 1) : valid(doc.matches[1][j])
        ELSE Len(doc.matches[1]) + 1
      newMatches == SelectSeq(SubSeq(doc.matches[1], 1, firstInvalid - 1),
                              LAMBDA m : m.id \notin existingIds)
      newPanels == IF doc.playerPanels = <<>> THEN <<>>
                   ELSE SelectSeq(doc.playerPanels[1],
                                  LAMBDA q : q.id \notin existingPanelIds)
      imported == IF doc.lastSelectedPanels = <<>> THEN {}
                  ELSE doc.lastSelectedPanels[1]
  IN IF doc.matches = <<>> THEN UNCHANGED vars
     ELSE IF firstInvalid <= Len(doc.matches[1])
     THEN /\ matches' = matches \o newMatches
          /\ UNCHANGED <<viewVars, nextId, editingMatchId, rosters,
                         playerInputs, playerPanels, lastSelectedPanels,
                         panelEditVars, storeVars>>
     ELSE /\ matches' = matches \o newMatches
          /\ playerPanels' = playerPanels \o newPanels
          /\ lastSelectedPanels' =
               {t \in lastSelectedPanels :
                  \A u \in imported : u.key # t.key} \cup imported
          /\ UNCHANGED <<viewVars, nextId, editingMatchId, rosters,
                         playerInputs, panelEditVars>>
          /\ saveAppState

\* DataManager.importData(file) for the parsed document doc.  A document
\* without a matches array, or with a match lacking its id or a team, is
\* refused before anything is touched.  Otherwise the matches and panels
\* whose id was not in the collection before the import are pushed, the
\* document's last selected panels override the stored ones, and the state
\* is saved.
importData(doc) ==
  LET existingIds == {matches[i].id : i \in 1..Len(matches)}
      existingPanelIds == {playerPanels[i].id : i \in 1..Len(playerPanels)}
      newMatches == SelectSeq(doc.matches[1],
                              LAMBDA m : m.id \notin existingIds)
      newPanels == IF doc.playerPanels = <<>> THEN <<>>
                   ELSE SelectSeq(doc.playerPanels[1],
                                  LAMBDA p : p.id \notin existingPanelIds)
      imported == IF doc.lastSelectedPanels = <<>> THEN {}
                  ELSE doc.lastSelectedPanels[1]
  IN IF \/ doc.matches = <<>>
        \/ \E i \in 1..Len(doc.matches[1]) :
             LET m == doc.matches[1][i]
             IN m.id = "" \/ ~m.team1 \/ ~m.team2
     THEN UNCHANGED vars
     ELSE /\ matches' = matches \o newMatches
          /\ playerPanels' = playerPanels \o newPanels
          /\ lastSelectedPanels' =
               {s \in lastSelectedPanels :
                  \A t \in imported : t.key # s.key} \cup imported
          /\ UNCHANGED <<viewVars, nextId, editingMatchId, rosters,
                         playerInputs, panelEditVars>>
          /\ saveAppState

(***************************** storage failures ****************************)
\* localStorage.setItem starts or stops throwing (the quota)
toggleLocalStorage ==
  /\ lsFails' = ~lsFails
  /\ UNCHANGED <<clockVars, matchType, logVars, modalVars, dataVars,
                 localStorage, indexedDB, idbFails>>

\* IndexedDB starts or stops failing
toggleIndexedDB ==
  /\ idbFails' = ~idbFails
  /\ UNCHANGED <<clockVars, matchType, logVars, modalVars, dataVars,
                 localStorage, indexedDB, lsFails>>

(***************************** clock specification *************************)
\* the clock, the period machine and the view switches; the log stays empty
NextClock ==
  \/ (now < T0 + StepMs * MaxClockSteps /\ Advance)
  \/ openMatchDetails
  \/ backToList
  \/ startMatch
  \/ pauseMatch
  \/ resumeMatch
  \/ endPeriod
  \/ tick

\* the clock claims do not read the match type
InitClock == Init /\ matchType = "football"

SpecClock == InitClock /\ [][NextClock]_vars

(***************************** the page's buttons **************************)
\* updateTimerControls: the pause button is displayed during play
PauseVisible ==
  /\ currentMatchId # NoMatch
  /\ isPlayingPeriod(currentPeriod)
  /\ ~isPaused

\* updateTimerControls: the resume button is displayed while play is paused
ResumeVisible ==
  /\ currentMatchId # NoMatch
  /\ isPlayingPeriod(currentPeriod)
  /\ isPaused

\* updateTimerControls: the period button is displayed until the match is over
PeriodButtonVisible ==
  /\ currentMatchId # NoMatch
  /\ currentPeriod # MATCH_OVER

\* updateTimerControls: the label of the period button begins with 'Start'
LabelStarts ==
  \/ currentPeriod \in {NOT_STARTED, HALF_TIME, EXTRA_HALF}
  \/ (currentPeriod = FULL_TIME /\ Positive(extraHalfLength))

\* a confirmed press of the period button
pressPeriodButton ==
  /\ PeriodButtonVisible
  /\ IF LabelStarts THEN startMatch ELSE endPeriod

\* the clock driven only through the buttons the page displays
NextButtons ==
  \/ (now < T0 + StepMs * MaxClockSteps /\ Advance)
  \/ openMatchDetails
  \/ backToList
  \/ (PauseVisible /\ pauseMatch)
  \/ (ResumeVisible /\ resumeMatch)
  \/ pressPeriodButton
  \/ tick

SpecButtons == InitClock /\ [][NextButtons]_vars

(***************************** log specification ***************************)
\* the values of the add-event and edit-event forms when nothing is changed
DefaultForm ==
  [teamId |-> TeamId("team1"), playerId |-> "", shotType |-> "fromPlay",
   shotOutcome |-> "goal", cardType |-> "yellow", foulOutcome |-> "free",
   kickoutOutcome |-> "won", playerOut |-> "", playerIn |-> "",
   noteText |-> "note"]

\* the shot outcomes the log specification enters: the three that score and
\* one that does not
LogOutcomes == {"goal", "point", "twoPointer", "wide"}

\* the forms the log specification submits
LogForms ==
  {[DefaultForm EXCEPT !.teamId = TeamId(t), !.shotOutcome = o] :
     t \in TeamKeys, o \in {"twoPointer", "saved"}}

\* ids of the events created so far
UsedIds == 1..(nextId - 1)

\* the match opened and started, the first half running, no time passed yet
InitLog ==
  /\ now = T0
  /\ InitData
  /\ currentMatchId = MatchId
  /\ timerInterval = 1
  /\ liveIntervals = {1}
  /\ currentPeriod = FIRST_HALF
  /\ elapsedTime = 0
  /\ isPaused = FALSE
  /\ periodStartTimestamp = T0
  /\ extraHalfLength = <<10>>
  /\ matchType \in MatchTypes
  /\ events = <<>>
  /\ nextId = 1
  /\ scoreModalData = <<>>
  /\ foulModalData = <<>>
  /\ kickoutModalData = <<>>
  /\ substitutionModalData = <<>>
  /\ noteModalData = <<>>
  /\ editingEventId = NoEvent
  /\ runningMs = 0

\* appends, edits and deletes of shots and cards during one playing period
NextLog ==
  \/ (nextId <= MaxEvents /\ \E t \in TeamKeys, o \in LogOutcomes :
        quickAddShot(t, o))
  \/ (nextId <= MaxEvents /\ \E f \in LogForms : addEvent("card", f))
  \/ (scoreModalData = <<>> /\ \E t \in TeamKeys :
        showScoreModal(t, "point", NoInitial))
  \/ (scoreModalData = <<>> /\ \E id \in UsedIds : showEditEventForm(id))
  \/ (\E o \in {"goal", "twoPointer"} :
        /\ scoreModalData # <<>>
        /\ scoreModalData[1].outcome \notin {"goal", "twoPointer"}
        /\ selectInScoreModal(o, "free", Null))
  \/ (/\ scoreModalData # <<>>
      /\ (scoreModalData[1].isEdit \/ nextId <= MaxEvents)
      /\ saveScoreEvent(""))
  \/ hideScoreModal
  \/ (\E f \in LogForms : saveEditedEvent(f))
  \/ (\E id \in UsedIds : deleteEvent(id))

SpecLog == InitLog /\ [][NextLog]_vars

(***************************** full specification **************************)
\* no event modal and no edit form is open
NoModalOpen ==
  /\ scoreModalData = <<>>
  /\ foulModalData = <<>>
  /\ kickoutModalData = <<>>
  /\ substitutionModalData = <<>>
  /\ noteModalData = <<>>
  /\ editingEventId = NoEvent

\* every handler of the open match view, for team1, with one modal open at
\* a time (an open modal covers the buttons that open the others) and the
\* wall clock standing still
Next ==
  \/ startMatch
  \/ pauseMatch
  \/ resumeMatch
  \/ endPeriod
  \/ tick
  \/ (nextId <= MaxLogged /\ addEvent("card", DefaultForm))
  \/ (NoModalOpen /\ showScoreModal("team1", "point", NoInitial))
  \/ (NoModalOpen /\ showFoulModal("team1", NoInitial))
  \/ (NoModalOpen /\ showKickoutModal("team1", NoInitial))
  \/ (NoModalOpen /\ showSubstitutionModal("team1", NoInitial))
  \/ (NoModalOpen /\ showNoteModal("team1", NoInitial))
  \/ (NoModalOpen /\ \E id \in UsedIds : showEditEventForm(id))
  \/ (/\ scoreModalData # <<>>
      /\ (scoreModalData[1].isEdit \/ nextId <= MaxLogged)
      /\ saveScoreEvent(""))
  \/ (/\ foulModalData # <<>>
      /\ (foulModalData[1].isEdit \/ nextId <= MaxLogged)
      /\ saveFoulEvent(""))
  \/ (/\ kickoutModalData # <<>>
      /\ (kickoutModalData[1].isEdit \/ nextId <= MaxLogged)
      /\ saveKickoutEvent(""))
  \/ (/\ substitutionModalData # <<>>
      /\ (substitutionModalData[1].isEdit \/ nextId <= MaxLogged)
      /\ saveSubstitutionEvent(""))
  \/ (/\ noteModalData # <<>>
      /\ (noteModalData[1].isEdit \/ nextId <= MaxLogged)
      /\ saveNoteEvent("note"))
  \/ (scoreModalData # <<>> /\ hideScoreModal)
  \/ (foulModalData # <<>> /\ hideFoulModal)
  \/ (kickoutModalData # <<>> /\ hideKickoutModal)
  \/ (substitutionModalData # <<>> /\ hideSubstitutionModal)
  \/ (noteModalData # <<>> /\ hideNoteModal)
  \/ saveEditedEvent([DefaultForm EXCEPT !.cardType = "red"])
  \/ (editingEventId # NoEvent /\ cancelEditEvent)
  \/ (\E id \in UsedIds : deleteEvent(id))

\* the match view just opened on a match created by the form (extra halves
\* of 10 minutes) or stored without the extraHalfLength field
InitFull ==
  /\ now = T0
  /\ InitData
  /\ currentMatchId = MatchId
  /\ timerInterval = NoTimer
  /\ liveIntervals = {}
  /\ currentPeriod = NOT_STARTED
  /\ elapsedTime = 0
  /\ isPaused = TRUE
  /\ periodStartTimestamp = NullTimestamp
  /\ extraHalfLength \in {<<>>, <<10>>}
  /\ matchType = "football"
  /\ events = <<>>
  /\ nextId = 1
  /\ scoreModalData = <<>>
  /\ foulModalData = <<>>
  /\ kickoutModalData = <<>>
  /\ substitutionModalData = <<>>
  /\ noteModalData = <<>>
  /\ editingEventId = NoEvent
  /\ runningMs = 0

Spec == InitFull /\ [][Next]_vars

(***************************** stamp specification *************************)
\* the buttons of the page, the wall clock, and points entered through the
\* score modal
NextStamp ==
  \/ NextButtons
  \/ (scoreModalData = <<>> /\ showScoreModal("team1", "point", NoInitial))
  \/ (/\ scoreModalData # <<>>
      /\ nextId <= MaxLogged
      /\ saveScoreEvent(""))

SpecStamp == InitFull /\ [][NextStamp]_vars

(***************************** edit specification **************************)
\* the first half running, one tick fired a second after the start
InitEdit ==
  /\ now = T0 + TickMs
  /\ InitData
  /\ currentMatchId = MatchId
  /\ timerInterval = 1
  /\ liveIntervals = {1}
  /\ currentPeriod = FIRST_HALF
  /\ elapsedTime = 1
  /\ isPaused = FALSE
  /\ periodStartTimestamp = T0
  /\ extraHalfLength = <<10>>
  /\ matchType = "football"
  /\ events = <<>>
  /\ nextId = 1
  /\ scoreModalData = <<>>
  /\ foulModalData = <<>>
  /\ kickoutModalData = <<>>
  /\ substitutionModalData = <<>>
  /\ noteModalData = <<>>
  /\ editingEventId = NoEvent
  /\ runningMs = TickMs

\* events of every type entered for team1 during the first half and edited
\* during it or after it has ended, one modal open at a time
NextEdit ==
  \/ (currentPeriod = FIRST_HALF /\ endPeriod)
  \/ (nextId <= MaxEvents /\ addEvent("card", DefaultForm))
  \/ (NoModalOpen /\ showScoreModal("team1", "point", NoInitial))
  \/ (NoModalOpen /\ showFoulModal("team1", NoInitial))
  \/ (NoModalOpen /\ showKickoutModal("team1", NoInitial))
  \/ (NoModalOpen /\ showSubstitutionModal("team1", NoInitial))
  \/ (NoModalOpen /\ showNoteModal("team1", NoInitial))
  \/ (NoModalOpen /\ \E id \in UsedIds : showEditEventForm(id))
  \/ (/\ scoreModalData # <<>>
      /\ scoreModalData[1].isEdit
      /\ scoreModalData[1].outcome # "goal"
      /\ selectInScoreModal("goal", "free", "p7"))
  \/ (/\ foulModalData # <<>>
      /\ foulModalData[1].isEdit
      /\ foulModalData[1].selectedCardType # "black"
      /\ selectInFoulModal("penalty", "black", "p7"))
  \/ (/\ kickoutModalData # <<>>
      /\ kickoutModalData[1].isEdit
      /\ kickoutModalData[1].selectedOutcome # "lost"
      /\ selectInKickoutModal("lost", "p7"))
  \/ (/\ substitutionModalData # <<>>
      /\ substitutionModalData[1].isEdit
      /\ substitutionModalData[1].selectedPlayerOffId # "p7"
      /\ selectInSubstitutionModal("p7", "p8"))
  \/ (/\ scoreModalData # <<>>
      /\ (scoreModalData[1].isEdit \/ nextId <= MaxEvents)
      /\ saveScoreEvent(""))
  \/ (/\ foulModalData # <<>>
      /\ (foulModalData[1].isEdit \/ nextId <= MaxEvents)
      /\ saveFoulEvent(""))
  \/ (/\ kickoutModalData # <<>>
      /\ (kickoutModalData[1].isEdit \/ nextId <= MaxEvents)
      /\ saveKickoutEvent(""))
  \/ (/\ substitutionModalData # <<>>
      /\ (substitutionModalData[1].isEdit \/ nextId <= MaxEvents)
      /\ saveSubstitutionEvent(""))
  \/ (/\ noteModalData # <<>>
      /\ (noteModalData[1].isEdit \/ nextId <= MaxEvents)
      /\ \E text \in {"note", "edited"} :
           (text = "edited" => noteModalData[1].isEdit) /\ saveNoteEvent(text))
  \/ saveEditedEvent([DefaultForm EXCEPT !.cardType = "red", !.playerId = "p7"])

SpecEdit == InitEdit /\ [][NextEdit]_vars

(***************************** guard specification *************************)
\* the log is below the explored length, or the period is not a playing one
\* (the handlers then append nothing)
MayCallAppend == nextId <= MaxEvents \/ ~isPlayingPeriod(currentPeriod)

\* the period button and the two direct appends, in every period
NextGuard ==
  \/ startMatch
  \/ endPeriod
  \/ (MayCallAppend /\ \E t \in TeamKeys, o \in {"goal", "wide"} :
        quickAddShot(t, o))
  \/ (MayCallAppend /\ \E type \in {"shot", "card"} :
        addEvent(type, DefaultForm))

SpecGuard == InitFull /\ [][NextGuard]_vars

(***************************** view specification **************************)
\* the clock handlers, the view switches and the deletion of the match
NextView ==
  \/ NextClock
  \/ deleteMatch(MatchId)

SpecView == InitClock /\ [][NextView]_vars

(***************************** reload specification ************************)
\* the clock driven through the displayed buttons, with page reloads
NextReload ==
  \/ NextButtons
  \/ reload

SpecReload == InitClock /\ [][NextReload]_vars

(***************************** id specification ****************************)
\* shots added while the wall clock runs, ids drawn as generateId draws them
NextIds ==
  \/ (now < T0 + StepMs * MaxClockSteps /\ Advance)
  \/ tick
  \/ (nextId <= MaxEvents /\ \E t \in TeamKeys, r \in Draws :
        quickAddShotWithId(t, "point", r))

SpecIds == InitLog /\ [][NextIds]_vars

(***************************** order specification *************************)
\* points and wides added during the first half, edited to goals through
\* the score modal and deleted during it or after it has ended; in between
\* the statistics modal is opened, and closed before anything else happens
NextOrder ==
  \/ (currentMatchStats = <<>> /\ currentPeriod = FIRST_HALF /\ endPeriod)
  \/ (/\ currentMatchStats = <<>>
      /\ nextId <= MaxOrdered
      /\ \E o \in {"point", "wide"} : quickAddShot("team1", o))
  \/ (/\ currentMatchStats = <<>>
      /\ scoreModalData = <<>>
      /\ \E id \in UsedIds : showEditEventForm(id))
  \/ (/\ scoreModalData # <<>>
      /\ scoreModalData[1].outcome # "goal"
      /\ selectInScoreModal("goal", "free", Null))
  \/ (scoreModalData # <<>> /\ saveScoreEvent(""))
  \/ (scoreModalData # <<>> /\ hideScoreModal)
  \/ (currentMatchStats = <<>> /\ \E id \in UsedIds : deleteEvent(id))
  \/ (scoreModalData = <<>> /\ showMatchStats)
  \/ hideMatchStats

SpecOrder == InitLog /\ [][NextOrder]_vars

(***************************** data specification **************************)
\* the most ids generateId() hands out to panels and panel players
MaxPanelIds == 2

\* the names typed into the inputs of the panel editor; a player just added
\* has the empty name
TypedNames == {"Ann"}

\* the panel an exported document carries
ImportedPanel == [id |-> 90, name |-> "Imported",
                  players |-> <<[id |-> 91, name |-> "Ann"]>>]

\* a match of an exported document
ImportedMatch(id, competition) ==
  [id |-> id, competition |-> competition, team1 |-> TRUE, team2 |-> TRUE]

\* the parsed documents offered to the import: another match with a panel
\* and its selection; the stored match again, changed, beside a match listed
\* twice; and a document without panels
ImportDocs ==
  {[matches |-> <<<<ImportedMatch("m2", "cup")>>>>,
    playerPanels |-> <<<<ImportedPanel>>>>,
    lastSelectedPanels |-> <<{[key |-> <<MatchId, "team1">>, panel |-> 90]}>>],
   [matches |-> <<<<ImportedMatch(MatchId, "cup"),
                    ImportedMatch("m3", "cup"),
                    ImportedMatch("m3", "shield")>>>>,
    playerPanels |-> <<<<ImportedPanel, ImportedPanel>>>>,
    lastSelectedPanels |-> <<>>],
   [matches |-> <<<<ImportedMatch("m2", "shield")>>>>,
    playerPanels |-> <<>>,
    lastSelectedPanels |-> <<>>]}

\* the documents the import refuses: one without a matches array, and
\* three whose matches array lists, after a match the collection does not
\* hold, a match without its id, without team1 and without team2
RefusedDocs ==
  {[matches |-> <<>>,
    playerPanels |-> <<<<ImportedPanel>>>>,
    lastSelectedPanels |-> <<{[key |-> <<MatchId, "team1">>, panel |-> 90]}>>]}
  \cup
  {[matches |-> <<<<ImportedMatch("m4", "cup"), bad>>>>,
    playerPanels |-> <<<<ImportedPanel>>>>,
    lastSelectedPanels |-> <<{[key |-> <<MatchId, "team1">>, panel |-> 90]}>>] :
     bad \in {[ImportedMatch("m5", "cup") EXCEPT !.id = ""],
              [ImportedMatch("m5", "cup") EXCEPT !.team1 = FALSE],
              [ImportedMatch("m5", "cup") EXCEPT !.team2 = FALSE]}}

\* the ids of the stored panels
PanelIds == {playerPanels[i].id : i \in 1..Len(playerPanels)}

\* handleMatchFormSubmit, create branch, for a football match: the extra
\* half length is the 10 of the handler
InitCreated ==
  /\ Init
  /\ extraHalfLength = <<10>>
  /\ matchType = "football"

\* a created match is opened, its roster and its form are edited, names are
\* copied from panels, and panels are made, edited and deleted
NextRoster ==
  \/ openMatchDetails
  \/ showEditPlayers("team1")
  \/ (\E value \in {" Bob", " "} : typePlayerName(1, value))
  \/ (\E id \in PanelIds :
        LET panel == playerPanels[find(playerPanels, id)]
        IN \E j \in 1..Len(panel.players) :
             /\ playerInputs # <<>>
             /\ selectPlayerForJersey("team1", playerInputs[1].playerId,
                                      1, panel.players[j].name))
  \/ savePlayerChanges
  \/ (currentMatchId # NoMatch /\ matchType = "football" /\ showEditMatchForm)
  \/ (\E name \in {"Gaels", " "} :
        /\ editingMatchId # NoMatch
        /\ handleMatchFormSubmit("cup", "hurling", name, "Rovers"))
  \/ (\E id \in PanelIds \cup {NoPanel} : showPanelEditor(id))
  \/ (nextId <= MaxPanelIds /\ addPlayerToPanel)
  \/ (\E name \in TypedNames : updatePanelPlayerName(1, name))
  \/ removePanelPlayer(1)
  \/ (\E name \in {"Seniors", " "} :
        /\ editingPanelId # NoPanel \/ nextId <= MaxPanelIds
        /\ savePanelEditor(name))
  \/ cancelPanelEditor
  \/ (\E id \in PanelIds : deletePanelWithConfirm(id))

SpecRoster == InitCreated /\ [][NextRoster]_vars

\* documents are imported, matches are made and deleted, panels are chosen
\* and deleted, and first localStorage and then IndexedDB starts to fail
NextImport ==
  \/ openMatchDetails
  \/ (\E doc \in ImportDocs \cup RefusedDocs : importData(doc))
  \/ deleteMatch("m2")
  \/ (/\ nextId = 1
      /\ handleMatchFormSubmit("cup", "football", "Gaels", "Rovers"))
  \/ (\E id \in PanelIds \cup {NoPanel} : panelDropdownChange("team1", id))
  \/ (\E id \in PanelIds : deletePanelWithConfirm(id))
  \/ (~lsFails /\ toggleLocalStorage)
  \/ (lsFails /\ ~idbFails /\ toggleIndexedDB)

SpecImport == InitCreated /\ [][NextImport]_vars

(***************************** claims: periods *****************************)
ExtraPeriods == {EXTRA_FIRST, EXTRA_HALF, EXTRA_SECOND}

\* position of a period in the fixed order, 1-based
Position(period) == CHOOSE i \in 1..9 : 
  <<NOT_STARTED, FIRST_HALF, HALF_TIME, SECOND_HALF, FULL_TIME,
    EXTRA_FIRST, EXTRA_HALF, EXTRA_SECOND, MATCH_OVER>>[i] = period

\* the periods strictly between two periods of the fixed order
Between(p, q) ==
  {r \in MatchPeriod : Position(p) < Position(r) /\ Position(r) < Position(q)}

\* C2: endPeriod in a period other than MATCH_OVER moves currentPeriod
\* strictly forward in the fixed order and skips no period that is not an
\* extra-time period.
C2_EndPeriodForward ==
  [][(endPeriod /\ currentPeriod # MATCH_OVER) =>
       /\ Position(currentPeriod') > Position(currentPeriod)
       /\ Between(currentPeriod, currentPeriod') \subseteq ExtraPeriods]_vars

\* endPeriod has left the first extra half for its half time
C2_Witness == currentPeriod = EXTRA_HALF /\ isPaused /\ elapsedTime = 0

\* C3: without extra time configured no sequence of startMatch, pauseMatch,
\* resumeMatch and endPeriod enters an extra-time period, and endPeriod at
\* FULL_TIME yields MATCH_OVER.
C3_NoExtraTime ==
  [][~Positive(extraHalfLength) =>
       /\ currentPeriod' \notin ExtraPeriods
       /\ (endPeriod /\ currentPeriod = FULL_TIME => currentPeriod' = MATCH_OVER)]_vars

\* a match without extra time has been ended at FULL_TIME
C3_Witness == ~Positive(extraHalfLength) /\ currentPeriod = MATCH_OVER

(***************************** claims: clock *******************************)
\* C5: at every pauseMatch elapsedTime is the whole seconds of wall-clock
\* time during which the clock was running in the current period.
C5_PauseKeepsRunningTime ==
  [][pauseMatch => elapsedTime' = runningMs' \div 1000]_vars

\* C6: within a period elapsedTime never decreases, and every change of
\* currentPeriod leaves elapsedTime at 0 unless the new period is MATCH_OVER.
C6_ElapsedMonotoneAndReset ==
  [][IF currentPeriod' = currentPeriod
     THEN elapsedTime' >= elapsedTime
     ELSE currentPeriod' # MATCH_OVER => elapsedTime' = 0]_vars

C1_EventsInPlayingPeriods ==
  \A i \in 1..Len(events) : isPlayingPeriod(events[i].period)

\* C10: a newly appended event carries the current period and the clock's
\* elapsed time at the moment of the call: the frozen elapsedTime while
\* paused, floor((now - periodStartTimestamp) / 1000) while running.
C10_StampIsCurrentClock ==
  [][Len(events') = Len(events) + 1 =>
       LET e == events'[Len(events')]
       IN /\ e.period = currentPeriod
          /\ e.timeElapsed = IF isPaused THEN elapsedTime
                             ELSE ClockSeconds(now, periodStartTimestamp)]_vars

(***************************** claims: scores ******************************)
\* the number of the team's shot events of the log with the given outcome
LogCount(teamKey, outcome) ==
  Cardinality({i \in 1..Len(events) :
                 /\ events[i].type = "shot"
                 /\ events[i].teamId = TeamId(teamKey)
                 /\ events[i].shotOutcome = outcome})

\* C7: after any appends, edits and deletes computeTeamScore is the fold of
\* the current log: goals counts the team's goals, points counts its points
\* plus 2 per twoPointer, total is 3 * goals + points.
C7_ScoreIsFoldOfLog ==
  \A t \in TeamKeys :
    LET s == computeTeamScore(events, t)
    IN /\ s.goals = LogCount(t, "goal")
       /\ s.points = LogCount(t, "point") + 2 * LogCount(t, "twoPointer")
       /\ s.total = 3 * s.goals + s.points

\* one event was deleted and the remaining shot was edited to a two-pointer
C7_Witness ==
  /\ Len(events) = 1
  /\ nextId = 3
  /\ events[1].type = "shot"
  /\ events[1].shotOutcome = "twoPointer"
  /\ events[1].shotType = "free"

\* C8: calculateTeamStats totals goals * 3 + points + twoPointers * 2 for
\* football and ladies football, and goals * 3 + points for hurling and
\* camogie, over the counts of the team's shots with each outcome.
C8_CanonicalTotal ==
  \A t \in TeamKeys :
    LET s == calculateTeamStats(events, matchType, t)
        goals == LogCount(t, "goal")
        points == LogCount(t, "point")
        twoPointers == LogCount(t, "twoPointer")
    IN /\ s.goals = goals
       /\ s.points = points
       /\ s.twoPointers = twoPointers
       /\ s.total = IF matchType \in {"football", "ladies_football"}
                    THEN goals * 3 + points + twoPointers * 2
                    ELSE goals * 3 + points

\* a camogie log holding a goal and a two-pointer of team1
C8_Witness ==
  /\ matchType = "camogie"
  /\ LogCount("team1", "goal") = 1
  /\ LogCount("team1", "twoPointer") = 1

EditTargets ==
  {d[1].eventId : d \in {m \in {scoreModalData, foulModalData,
                                 kickoutModalData, substitutionModalData,
                                 noteModalData} : m # <<>> /\ m[1].isEdit}}
    \cup {editingEventId}

\* C11: an edit leaves the edited event's id, type, period and timeElapsed
\* unchanged, leaves every other event unchanged and keeps the length and
\* order of the log, whatever the period and clock value at edit time.
C11_EditKeepsStamp ==
  [][/\ (\/ saveEditedEvent([DefaultForm EXCEPT !.cardType = "red",
                                                !.playerId = "p7"])
         \/ (EditTargets # {NoEvent} /\ NoModalOpen'))
          => Len(events') = Len(events)
     /\ (Len(events') = Len(events) /\ events' # events) =>
          \E k \in 1..Len(events) :
            /\ events[k].id \in EditTargets
            /\ \A i \in 1..Len(events) : i # k => events'[i] = events[i]
            /\ events'[k].id = events[k].id
            /\ events'[k].type = events[k].type
            /\ events'[k].period = events[k].period
            /\ events'[k].timeElapsed = events[k].timeElapsed]_vars

\* a card logged in the first half at 0:01 was edited to red after the half
\* ended, behind an untouched first event
C11_Witness ==
  /\ Len(events) = 2
  /\ currentPeriod = HALF_TIME
  /\ elapsedTime = 0
  /\ events[2].type = "card"
  /\ events[2].cardType = "red"
  /\ events[2].period = FIRST_HALF
  /\ events[2].timeElapsed = 1

(***************************** claims: refusals ****************************)
\* C12: quickAddShot and addEvent called outside a playing period leave the
\* event list and both teams' scores unchanged.
C12_NoAppendOutsidePlay ==
  [][(/\ ~isPlayingPeriod(currentPeriod)
      /\ \/ \E t \in TeamKeys, o \in {"goal", "wide"} : quickAddShot(t, o)
         \/ \E type \in {"shot", "card"} : addEvent(type, DefaultForm))
       => /\ events' = events
          /\ \A t \in TeamKeys :
               computeTeamScore(events', t) = computeTeamScore(events, t)]_vars

\* half time with a goal of team2 in the log
C12_Witness ==
  /\ currentPeriod = HALF_TIME
  /\ Len(events) = 1
  /\ computeTeamScore(events, "team2").goals = 1

\* C13: startMatch at FULL_TIME enters EXTRA_FIRST when extra time is
\* configured and is otherwise refused, leaving currentPeriod, isPaused,
\* elapsedTime, periodStartTimestamp and the tick handle unchanged, for every
\* extraHalfLength; startMatch at MATCH_OVER is always refused.
C13_StartRefusedOrExtra ==
  [][(startMatch /\ currentPeriod \in {FULL_TIME, MATCH_OVER}) =>
       IF currentPeriod = FULL_TIME /\ Positive(extraHalfLength)
       THEN currentPeriod' = EXTRA_FIRST
       ELSE UNCHANGED <<currentPeriod, isPaused, elapsedTime,
                        periodStartTimestamp, timerInterval,
                        liveIntervals>>]_vars

(***************************** claims: starting a period ********************)
\* the period startMatch must enter from each break
StartTarget(period) ==
  CASE period = NOT_STARTED -> FIRST_HALF
    [] period = HALF_TIME -> SECOND_HALF
    [] period = EXTRA_HALF -> EXTRA_SECOND
    [] period = FULL_TIME -> EXTRA_FIRST

\* C14: startMatch from NOT_STARTED, HALF_TIME, EXTRA_HALF, and FULL_TIME
\* with extra time configured, enters FIRST_HALF, SECOND_HALF, EXTRA_SECOND
\* and EXTRA_FIRST; afterwards isPaused is false, periodStartTimestamp is
\* now - elapsedTime * 1000 and exactly one tick is active.
C14_StartEntersNextPeriod ==
  [][(/\ startMatch
      /\ \/ currentPeriod \in {NOT_STARTED, HALF_TIME, EXTRA_HALF}
         \/ (currentPeriod = FULL_TIME /\ Positive(extraHalfLength)))
       => /\ currentPeriod' = StartTarget(currentPeriod)
          /\ ~isPaused'
          /\ periodStartTimestamp' = now' - elapsedTime' * 1000
          /\ Cardinality(liveIntervals') = 1
          /\ timerInterval' \in liveIntervals']_vars

\* the first extra half just started from FULL_TIME
C14_Witness ==
  /\ currentPeriod = EXTRA_FIRST
  /\ ~isPaused
  /\ periodStartTimestamp = now
  /\ Cardinality(liveIntervals) = 1

(***************************** claims: tick ********************************)
\* C15: at most one tick interval is live at any time, it is the one
\* appState.timerInterval holds, and stopTimer is idempotent.
C15_AtMostOneTick ==
  /\ Cardinality(liveIntervals) <= 1
  /\ liveIntervals = IF timerInterval = NoTimer THEN {} ELSE {timerInterval}
  /\ LET stopped == stopTimer(timerInterval, liveIntervals)
     IN /\ stopTimer(stopped[1], stopped[2]) = stopped
        /\ stopped[2] = {}

\* the second half, whose tick endPeriod started after cancelling the tick
\* of the first half
C15_Witness ==
  /\ currentPeriod = SECOND_HALF
  /\ ~isPaused
  /\ liveIntervals = {timerInterval}

\* C16: leaving the match details view cancels the tick, openMatchDetails
\* restarts it exactly when the match is not paused and in a playing period,
\* and no tick is live while no match is open.
C16_TickFollowsView ==
  [][/\ backToList => liveIntervals' = {}
     /\ openMatchDetails =>
          (liveIntervals' # {} <=> (~isPaused /\ isPlayingPeriod(currentPeriod)))
     /\ currentMatchId' = NoMatch => liveIntervals' = {}]_vars

\* C17: while the clock runs every tick sets elapsedTime to
\* floor((now - periodStartTimestamp) / 1000) however many ticks were
\* missed, and cancelling and restarting the tick (backToList and
\* openMatchDetails, a reload) leaves the anchor it computes from untouched.
C17_TickRecomputesFromAnchor ==
  [][/\ (tick /\ ~isPaused) =>
          elapsedTime' = (now - periodStartTimestamp) \div 1000
     /\ (backToList \/ openMatchDetails \/ reload) =>
          UNCHANGED <<periodStartTimestamp, isPaused, currentPeriod>>]_vars

\* two seconds into a running period a tick has fired
C17_Witness ==
  /\ ~isPaused
  /\ liveIntervals # {}
  /\ now - periodStartTimestamp = 2 * TickMs
  /\ elapsedTime = 2

(***************************** claims: statistics **************************)
\* goals * 3 + points, plus twoPointers * 2 in football and ladies football,
\* counted from the log
CanonicalTotal(teamKey) ==
  LogCount(teamKey, "goal") * 3 + LogCount(teamKey, "point")
    + (IF matchType \in {"football", "ladies_football"}
       THEN LogCount(teamKey, "twoPointer") * 2 ELSE 0)

\* a shot of the given team with the given outcome
ExampleShot(id, teamKey, outcome) ==
  Event(id, "shot", FIRST_HALF, 0, TeamId(teamKey), Null, Null, outcome,
        "fromPlay", Null, Null, Null, Null)

\* team1 scores a goal, a point and a two-pointer, team2 a point
ExampleLog ==
  <<ExampleShot(1, "team1", "goal"), ExampleShot(2, "team1", "point"),
    ExampleShot(3, "team1", "twoPointer"), ExampleShot(4, "team2", "point")>>

\* C18: calculateMatchSummary names the team with the strictly greater
\* canonical total as winner, 'Draw' when the totals are equal, and the
\* absolute difference as margin; the football example gives totals 6 and 1,
\* winner team1 and margin 5.
C18_WinnerAndMargin ==
  LET summary == calculateMatchSummary(events, matchType)
      total1 == CanonicalTotal("team1")
      total2 == CanonicalTotal("team2")
      example == calculateMatchSummary(ExampleLog, "football")
  IN /\ total1 > total2 => summary.winner = TeamName("team1")
     /\ total2 > total1 => summary.winner = TeamName("team2")
     /\ total1 = total2 => summary.winner = "Draw"
     /\ summary.margin = Abs(total1 - total2)
     /\ calculateTeamStats(ExampleLog, "football", "team1").total = 6
     /\ calculateTeamStats(ExampleLog, "football", "team2").total = 1
     /\ example.winner = TeamName("team1")
     /\ example.margin = 5

\* a hurling match level at a goal each
C18_Witness ==
  /\ matchType = "hurling"
  /\ Len(events) = 2
  /\ CanonicalTotal("team1") = 3
  /\ CanonicalTotal("team2") = 3

\* the number of the team's events of the given type whose player1Id is the
\* player
PlayerCount(teamKey, playerId, type) ==
  Cardinality({i \in 1..Len(events) :
                 /\ events[i].teamId = TeamId(teamKey)
                 /\ events[i].player1Id = playerId
                 /\ events[i].type = type})

\* the same, for the shots with the given outcome
PlayerShots(teamKey, playerId, outcome) ==
  Cardinality({i \in 1..Len(events) :
                 /\ events[i].teamId = TeamId(teamKey)
                 /\ events[i].player1Id = playerId
                 /\ events[i].type = "shot"
                 /\ events[i].shotOutcome = outcome})

\* what calculatePlayerStats reports for a player: its entry, or zeros when
\* the result has none
Reported(stats, playerId) ==
  IF \E i \in 1..Len(stats) : stats[i].id = playerId
  THEN stats[CHOOSE i \in 1..Len(stats) : stats[i].id = playerId]
  ELSE initialPlayerStats(playerId)

\* C19: for every roster player calculatePlayerStats reports the counts of
\* the team's events whose player1Id is that player, with totalScore =
\* 3 * goals + points + 2 * twoPointers, and getTopScorers lists the players
\* with totalScore > 0 in non-increasing order, at most 5.
C19_PlayerStatsFoldByPlayer ==
  \A t \in TeamKeys :
    LET stats == calculatePlayerStats(teamEventsOf(events, t), Roster)
        top == getTopScorers(stats)
    IN /\ \A i \in 1..Len(Roster) :
            LET p == Roster[i]
                r == Reported(stats, p)
            IN /\ r.goals = PlayerShots(t, p, "goal")
               /\ r.points = PlayerShots(t, p, "point")
               /\ r.twoPointers = PlayerShots(t, p, "twoPointer")
               /\ r.shots = PlayerCount(t, p, "shot")
               /\ r.fouls = PlayerCount(t, p, "foulConceded")
               /\ r.cards = PlayerCount(t, p, "card")
               /\ r.totalScore = 3 * r.goals + r.points + 2 * r.twoPointers
       /\ {top[i].id : i \in 1..Len(top)} =
            {Roster[i] : i \in {j \in 1..Len(Roster) :
                                  Reported(stats, Roster[j]).totalScore > 0}}
       /\ \A i \in 1..(Len(top) - 1) :
            top[i].totalScore >= top[i + 1].totalScore
       /\ Len(top) <= 5

(***************************** claims: ids *********************************)
\* C20: the ids of the events of a match's log are pairwise different in
\* every reachable state, for ids drawn by generateId.
C20_EventIdsUnique ==
  \A i, j \in 1..Len(events) : i # j => events[i].id # events[j].id


(***************************** claims: order *******************************)
\* ids of the events of a log
IdsOf(evts) == {evts[i].id : i \in 1..Len(evts)}

\* C21: every append puts the new event at the end of match.events, no edit
\* or delete changes the relative order of the events that remain, and the
\* displayed order is the exact reversal of the stored order.
C21_CreationOrderKept ==
  [][/\ \A i \in 1..Len(events') :
          events'[i].id \notin IdsOf(events) => i = Len(events')
     /\ \A i, j \in 1..Len(events') :
          (i < j /\ {events'[i].id, events'[j].id} \subseteq IdsOf(events))
            => find(events, events'[i].id) < find(events, events'[j].id)
     /\ Len(reverse(events')) = Len(events')
     /\ \A i \in 1..Len(events') :
          reverse(events')[i] = events'[Len(events') + 1 - i]]_vars

\* the second of three events was deleted, the first edited to a goal, and
\* the display shows the third above the first
C21_Witness ==
  /\ Len(events) = 2
  /\ events[1].id = 1
  /\ events[1].shotOutcome = "goal"
  /\ events[2].id = 3
  /\ reverse(events)[1].id = 3

(***************************** claims: delete ******************************)
\* indices of the events of the log whose id is not `id`
Kept(id) == {i \in 1..Len(events) : events[i].id # id}

\* the k-th smallest index of a set of indices
Nth(indices, k) ==
  CHOOSE i \in indices : Cardinality({j \in indices : j <= i}) = k

\* C22: deleting an event removes from the log exactly the events whose id
\* is the given id, in every period, and leaves the other events and their
\* order unchanged; deleting an id that is not in the log changes nothing.
C22_DeleteFiltersById ==
  [][\A id \in 1..MaxOrdered :
       /\ id \in IdsOf(events) =>
            ENABLED (deleteEvent(id) /\ Len(events') < Len(events))
       /\ deleteEvent(id) =>
            /\ Len(events') = Cardinality(Kept(id))
            /\ \A k \in 1..Len(events') : events'[k] = events[Nth(Kept(id), k)]
            /\ id \notin IdsOf(events) => events' = events]_vars

\* at half time the first two of three events are gone
C22_Witness ==
  /\ currentPeriod = HALF_TIME
  /\ nextId = MaxOrdered + 1
  /\ IdsOf(events) = {MaxOrdered}

IsAccuracyOf(value, scale, successful, total) ==
  /\ 0 <= successful /\ successful <= total
  /\ 0 <= value /\ value <= 100 * scale
  /\ total = 0 => value = 0
  /\ total > 0 => 2 * Abs(value * total - 100 * scale * successful) <= total

\* C24: shooting accuracy is 0 without shots and otherwise
\* successful/total*100 at the precision of the display (an integer in the
\* comparison card and per player, one decimal in the team statistics),
\* with successful the shots whose outcome is goal, point or two-pointer,
\* 0 <= successful <= total and 0 <= accuracy <= 100.
C24_AccuracyIsSuccessRatio ==
  \A t \in TeamKeys :
    LET total == LogCount(t, "goal") + LogCount(t, "point")
                   + LogCount(t, "twoPointer") + LogCount(t, "wide")
                   + LogCount(t, "saved") + LogCount(t, "droppedShort")
                   + LogCount(t, "offPost")
        successful == LogCount(t, "goal") + LogCount(t, "point")
                        + LogCount(t, "twoPointer")
        card == calculateTeamShootingComparison(events, t)
        team == teamShooting(events, t)
        byPlayer == calculatePlayerShootingStats(events, t)
    IN /\ card.total = total /\ card.successful = successful
       /\ IsAccuracyOf(card.accuracy, 1, successful, total)
       /\ team.total = total /\ team.successful = successful
       /\ IsAccuracyOf(team.accuracy, 10, successful, total)
       /\ \A k \in DOMAIN byPlayer :
            IsAccuracyOf(byPlayer[k].accuracy, 1, byPlayer[k].successfulShots,
                         byPlayer[k].totalShots)

\* two of three shots of team1 scored: 67% in the card, 66.7% in the team
\* statistics
C24_Witness ==
  /\ calculateTeamShootingComparison(events, "team1").total = 3
  /\ calculateTeamShootingComparison(events, "team1").successful = 2
  /\ calculateTeamShootingComparison(events, "team1").accuracy = 67
  /\ teamShooting(events, "team1").accuracy = 667
  /\ calculateTeamShootingComparison(events, "team2").accuracy = 0

(***************************** claims: score display ***********************)
\* C25: in the 'goals-points' displays of a football-family match the
\* points shown are points + 2 * twoPointers, padded to two digits, both in
\* the team score display of calculateTeamStats and in formatScoreDisplay
\* applied to a scorer's totals; for the other match types they are the
\* points.
C25_DisplayedPointsFoldTwoPointers ==
  \A t \in TeamKeys :
    LET isFootball == matchType \in {"football", "ladies_football"}
        shown == IF isFootball
                 THEN LogCount(t, "point") + 2 * LogCount(t, "twoPointer")
                 ELSE LogCount(t, "point")
        expected == ToString(LogCount(t, "goal")) \o "-"
                      \o (IF shown < 10 THEN "0" ELSE "") \o ToString(shown)
        scorerTotal == [goals |-> LogCount(t, "goal"),
                        points |-> LogCount(t, "point"),
                        twoPointers |-> IF isFootball
                                        THEN LogCount(t, "twoPointer") ELSE 0]
    IN /\ scoreDisplay(events, matchType, t) = expected
       /\ formatScoreDisplay(scorerTotal, isFootball) = expected
(***************************** claims: rosters and panels *******************)
\* the roster of teamKey has the 30 players it was created with, in their
\* places: the same ids, and the jersey numbers 1..30, each once
RosterKept(teamKey) ==
  LET players == rosters[teamKey]
  IN /\ Len(players) = 30
     /\ {players[i].jerseyNumber : i \in 1..Len(players)} = 1..30
     /\ \A i \in 1..Len(players) :
          /\ players[i].jerseyNumber = i
          /\ players[i].id = generatePlayers(teamKey)[i].id

\* C26: a newly created match has currentPeriod NOT_STARTED, isPaused true,
\* elapsedTime 0, an empty event log and two teams of exactly 30 players
\* with jersey numbers 1..30, each number once per team; and after any
\* sequence of operations (savePlayerChanges and match edits among them)
\* each roster still has exactly 30 players with the same ids and the
\* jersey numbers 1..30.
C26_CreatedMatchAndRosters ==
  /\ currentPeriod = NOT_STARTED
  /\ isPaused = TRUE
  /\ elapsedTime = 0
  /\ events = <<>>
  /\ [](\A t \in TeamKeys : RosterKept(t))

\* savePlayerChanges has renamed a player and emptied nobody's name but a
\* typed blank, and the match form has changed the match
C26_Witness ==
  /\ \E i \in 1..Len(rosters["team1"]) : rosters["team1"][i].name = "Bob"
  /\ matchType = "hurling"
  /\ matches[1].competition = "cup"

\* the handler A can run and leaves the three collections with the values
\* m, p and l, and the stores as they were when stored is false
Produces(A, m, p, l, stored) ==
  ENABLED (/\ A
           /\ matches' = m
           /\ playerPanels' = p
           /\ lastSelectedPanels' = l
           /\ stored \/ UNCHANGED <<localStorage, indexedDB>>)

\* C27: a failed save never changes in-memory state.  While
\* localStorage.setItem throws, with IndexedDB failing as well or taking the
\* data, every mutating operation runs and leaves appState.matches,
\* playerPanels and lastSelectedPanels with exactly the values it produces
\* (the import its merge, deleteMatch the list without the match, the match
\* form the list with the new match, the panel dropdown the new selection,
\* deletePanelWithConfirm the list without the panel), whatever earlier
\* saves were lost; with both stores failing the stores keep what they held.
C27_FailedSaveKeepsMemory ==
  lsFails =>
    LET ids == {matches[i].id : i \in 1..Len(matches)}
    IN /\ \A doc \in ImportDocs :
            Produces(importData(doc),
                     matches \o SelectSeq(doc.matches[1],
                                          LAMBDA m : m.id \notin ids),
                     playerPanels \o
                       (IF doc.playerPanels = <<>> THEN <<>>
                        ELSE SelectSeq(doc.playerPanels[1],
                                       LAMBDA q : q.id \notin PanelIds)),
                     IF doc.lastSelectedPanels = <<>> THEN lastSelectedPanels
                     ELSE doc.lastSelectedPanels[1] \cup
                          {s \in lastSelectedPanels :
                             s.key # <<MatchId, "team1">>},
                     ~idbFails)
       /\ "m2" \in ids =>
            Produces(deleteMatch("m2"),
                     SelectSeq(matches, LAMBDA m : m.id # "m2"),
                     playerPanels, lastSelectedPanels, ~idbFails)
       /\ Produces(handleMatchFormSubmit("cup", "football", "Gaels", "Rovers"),
                   Append(matches, ImportedMatch("n" \o ToString(nextId), "cup")),
                   playerPanels, lastSelectedPanels, ~idbFails)
       /\ currentMatchId # NoMatch =>
            \A id \in PanelIds :
              Produces(panelDropdownChange("team1", id), matches, playerPanels,
                       {s \in lastSelectedPanels :
                          s.key # <<MatchId, "team1">>} \cup
                       {[key |-> <<MatchId, "team1">>, panel |-> id]},
                       ~idbFails)
       /\ \A id \in PanelIds :
            Produces(deletePanelWithConfirm(id), matches,
                     splice(playerPanels, find(playerPanels, id)),
                     lastSelectedPanels, ~idbFails)

\* both stores fail, and the import, the match form and the deletions have
\* run since: memory holds a list of matches that no store holds
C27_Witness ==
  /\ lsFails
  /\ idbFails
  /\ Len(matches) >= 2
  /\ localStorage["matches"] # <<matches>>
  /\ indexedDB["matches"] # <<matches>>
  /\ playerPanels # <<>>
  /\ localStorage["playerPanels"] = <<<<>>>>

\* no two places of the collection hold the same id
UniqueIds(collection) ==
  \A i, j \in 1..Len(collection) :
    collection[i].id = collection[j].id => i = j

\* the collection after an import: what it held, unchanged and in place,
\* followed by exactly the imported items whose id it did not hold; every
\* imported id is held afterwards, so that a second import adds nothing;
\* and the ids are unique
MergedById(before, after, imported) ==
  LET ids == {before[i].id : i \in 1..Len(before)}
  IN /\ after = before \o SelectSeq(imported, LAMBDA x : x.id \notin ids)
     /\ \A k \in 1..Len(imported) :
          \E i \in 1..Len(after) : after[i].id = imported[k].id
     /\ UniqueIds(after)

\* C28: DataManager.importData merges by id: it adds exactly those imported
\* matches and panels whose id is not already present, leaves every
\* existing match and panel unchanged, and keeps match ids and panel ids
\* unique in the collections; importing the same document a second time
\* adds nothing.
C28_ImportMergesById ==
  [][\A doc \in ImportDocs :
       importData(doc) =>
         /\ MergedById(matches, matches', doc.matches[1])
         /\ MergedById(playerPanels, playerPanels',
                       IF doc.playerPanels = <<>> THEN <<>>
                       ELSE doc.playerPanels[1])]_vars

\* C29: panels are copied into rosters, never referenced.  Whatever names
\* have been copied from panels into a roster and saved, every edit of a
\* panel (a player added, removed or renamed), every save, cancel and
\* deletion of a panel leaves the rosters of the match unchanged; and no
\* match operation (opening the match, the edit-players view and its
\* inputs, the copy of a panel name, savePlayerChanges, the match form)
\* deletes or alters a panel.  The operations are told by what they write:
\* the panels and the editor's state on one side, the open match, the
\* inputs, the rosters and the match's fields on the other.
C29_PanelsCopiedNotReferenced ==
  [][/\ (\/ playerPanels' # playerPanels
         \/ editingPanelId' # editingPanelId
         \/ originalPanelState' # originalPanelState
         \/ tempPanelPlayers' # tempPanelPlayers)
        => UNCHANGED rosters
     /\ (\/ currentMatchId' # currentMatchId
         \/ playerInputs' # playerInputs
         \/ rosters' # rosters
         \/ editingMatchId' # editingMatchId
         \/ matches' # matches
         \/ matchType' # matchType)
        => UNCHANGED playerPanels]_vars

\* the name of a panel player was copied into the roster and saved, and the
\* panel has since been deleted
C29_Witness ==
  /\ rosters["team1"][1].name = "Ann"
  /\ playerPanels = <<>>
  /\ localStorage["playerPanels"] = <<<<>>>>
  /\ nextId > 1

(***************************** claims: auto-start **************************)
\* C30: endPeriod leaves the match paused with no tick active unless the
\* period it enters is SECOND_HALF or EXTRA_SECOND, in which case it
\* auto-starts play (isPaused false, periodStartTimestamp = now, elapsedTime
\* 0, one tick active); entering FIRST_HALF or EXTRA_FIRST through endPeriod
\* does not auto-start.
C30_EndPeriodAutoStart ==
  [][endPeriod =>
       IF currentPeriod' \in {SECOND_HALF, EXTRA_SECOND}
       THEN /\ isPaused' = FALSE
            /\ periodStartTimestamp' = now
            /\ elapsedTime' = 0
            /\ timerInterval' # NoTimer
            /\ liveIntervals' = {timerInterval'}
       ELSE /\ isPaused' = TRUE
            /\ timerInterval' = NoTimer
            /\ liveIntervals' = {}
            /\ currentPeriod' \in {FIRST_HALF, EXTRA_FIRST} =>
                 periodStartTimestamp' = periodStartTimestamp]_vars

\* the first half entered through endPeriod from a match not started: it is
\* paused, no tick runs, and no period has ever been stamped
C30_Witness ==
  /\ currentMatchId # NoMatch
  /\ currentPeriod = FIRST_HALF
  /\ isPaused
  /\ periodStartTimestamp = NullTimestamp
  /\ timerInterval = NoTimer
  /\ liveIntervals = {}

(***************************** claims: pause *******************************)
\* C31: pauseMatch sets isPaused true, cancels the tick and freezes
\* elapsedTime at floor((now - periodStartTimestamp) / 1000); from then
\* until the next resumeMatch, startMatch or endPeriod (while the match
\* stays paused in its playing period) elapsedTime does not change as
\* wall-clock time advances, further pauseMatch calls included.  The clock
\* has run in the period (runningMs > 0), so it was pauseMatch that paused.
C31_PauseFreezesElapsed ==
  [][/\ pauseMatch =>
          /\ isPaused' = TRUE
          /\ timerInterval' = NoTimer
          /\ liveIntervals' = {}
          /\ elapsedTime' = ClockSeconds(now, periodStartTimestamp)
     /\ (/\ isPaused
         /\ isPaused'
         /\ isPlayingPeriod(currentPeriod)
         /\ currentPeriod' = currentPeriod
         /\ runningMs > 0)
        => elapsedTime' = elapsedTime]_vars

\* C32: in every state reachable by startMatch, pauseMatch, resumeMatch,
\* endPeriod, openMatchDetails and backToList, isPaused is false only in a
\* playing period, and a tick is live only if a match is open, unpaused and
\* in a playing period.
C32_ClockOnlyInPlay ==
  /\ ~isPaused => isPlayingPeriod(currentPeriod)
  /\ liveIntervals # {} =>
       /\ currentMatchId # NoMatch
       /\ ~isPaused
       /\ isPlayingPeriod(currentPeriod)

(***************************** claims: period button ***********************)
\* the user keeps pressing: a closed match is opened again, and a period
\* button that is displayed again and again is pressed
SpecPress ==
  /\ InitClock
  /\ [][NextButtons]_vars
  /\ WF_vars(currentMatchId = NoMatch /\ openMatchDetails)
  /\ SF_vars(pressPeriodButton)

\* C33: driven through the period button, every confirmed press moves
\* currentPeriod to the next period of the fixed order, from FULL_TIME to
\* MATCH_OVER when no positive extra time is configured, and from every
\* period before MATCH_OVER repeated presses lead to MATCH_OVER.
C33_PressesReachMatchOver ==
  /\ [][pressPeriodButton =>
          IF currentPeriod = FULL_TIME /\ ~Positive(extraHalfLength)
          THEN currentPeriod' = MATCH_OVER
          ELSE Position(currentPeriod') = Position(currentPeriod) + 1]_vars
  /\ [][currentPeriod' # currentPeriod => pressPeriodButton]_vars
  /\ (currentPeriod # MATCH_OVER) ~> (currentPeriod = MATCH_OVER)

\* the presses have gone through both extra halves to the end of the match
C33_Witness ==
  /\ currentPeriod = MATCH_OVER
  /\ Positive(extraHalfLength)
  /\ currentMatchId # NoMatch

(***************************** claims: the two scores **********************)
\* C34: for every log and team, computeTeamScore's total minus
\* calculateTeamStats' total is 0 for football and ladies football, where the
\* canonical formula counts two-pointers, and 2 * twoPointers for hurling and
\* camogie, where it leaves them out.
C34_ScoresAgreeUpToGate ==
  \A t \in TeamKeys :
    LET running == computeTeamScore(events, t).total
        canonical == calculateTeamStats(events, matchType, t)
        gatedOff == matchType \notin {"football", "ladies_football"}
    IN /\ matchType = "football" => running = canonical.total
       /\ running - canonical.total =
            IF gatedOff THEN 2 * canonical.twoPointers ELSE 0

\* a hurling log holding a goal and a two-pointer of team1: 5 against 3
C34_Witness ==
  /\ matchType = "hurling"
  /\ LogCount("team1", "twoPointer") = 1
  /\ LogCount("team1", "goal") = 1
  /\ computeTeamScore(events, "team1").total = 5
  /\ calculateTeamStats(events, matchType, "team1").total = 3

(***************************** claims: team of an edited event *************)
\* notes entered through the add-event form (no team) and through the note
\* modal, cards, and their edits
NextNote ==
  \/ (currentPeriod = FIRST_HALF /\ endPeriod)
  \/ (nextId <= MaxEvents /\ \E type \in {"note", "card"} :
        addEvent(type, DefaultForm))
  \/ (NoModalOpen /\ \E t \in TeamKeys : showNoteModal(t, NoInitial))
  \/ (NoModalOpen /\ \E id \in UsedIds : showEditEventForm(id))
  \/ (/\ noteModalData # <<>>
      /\ (noteModalData[1].isEdit \/ nextId <= MaxEvents)
      /\ \E text \in {"note", "edited"} :
           (text = "edited" => noteModalData[1].isEdit) /\ saveNoteEvent(text))
  \/ hideNoteModal
  \/ (\E t \in TeamKeys :
        saveEditedEvent([DefaultForm EXCEPT !.teamId = TeamId(t)]))

SpecNote == InitEdit /\ [][NextNote]_vars

\* C35: every event's teamId is null or the id of one of the two teams, and
\* an edit through a modal that leaves every other field of the event as it
\* was leaves its teamId as it was, null included.
C35_EditKeepsTeamId ==
  /\ [](\A i \in 1..Len(events) :
          events[i].teamId \in {Null, TeamId("team1"), TeamId("team2")})
  /\ [][(/\ EditTargets # {NoEvent}
         /\ editingEventId = NoEvent
         /\ NoModalOpen'
         /\ Len(events') = Len(events))
          => \A i \in 1..Len(events) :
               events'[i] = [events[i] EXCEPT !.teamId = events'[i].teamId]
                 => events'[i].teamId = events[i].teamId]_vars

(***************************** claims: storage round trip ******************)
\* the step ran a handler that ends in saveAppState(): it changed a stored
\* collection or a store
StepSaved ==
  \/ matches' # matches
  \/ playerPanels' # playerPanels
  \/ lastSelectedPanels' # lastSelectedPanels
  \/ localStorage' # localStorage
  \/ indexedDB' # indexedDB

\* C36: after a save in which not both stores failed, loadData of each of
\* the three keys returns the value that save was given, whatever
\* localStorage writes failed before; never an older value of the other
\* store.
C36_LoadReturnsLastSave ==
  [][(StepSaved /\ ~(lsFails /\ idbFails)) =>
       /\ loadData("matches")' = <<matches'>>
       /\ loadData("playerPanels")' = <<playerPanels'>>
       /\ loadData("lastSelectedPanels")' = <<lastSelectedPanels'>>]_vars

(***************************** claims: cancelled panel edit ****************)
\* ids given to panels and to their players in the panel specification
MaxPanelEdits == 4

\* panels are made, edited, saved, cancelled and deleted
NextPanels ==
  \/ (\E id \in PanelIds \cup {NoPanel} : showPanelEditor(id))
  \/ (nextId <= MaxPanelEdits /\ addPlayerToPanel)
  \/ (\E name \in TypedNames : updatePanelPlayerName(1, name))
  \/ removePanelPlayer(1)
  \/ (/\ editingPanelId # NoPanel \/ nextId <= MaxPanelEdits
      /\ savePanelEditor("Seniors"))
  \/ cancelPanelEditor
  \/ (\E id \in PanelIds : deletePanelWithConfirm(id))

SpecPanels == InitCreated /\ [][NextPanels]_vars

\* a step of the panel editor between opening and closing it
PanelEditStep ==
  \/ addPlayerToPanel
  \/ \E name \in TypedNames : updatePanelPlayerName(1, name)
  \/ removePanelPlayer(1)

\* the place of the panel open in the editor, 0 when there is none
EditedPlace == find(playerPanels, editingPanelId)

\* every panel but the one at place p is as it was, and in its place
OtherPanelsKept(p) ==
  /\ Len(playerPanels') = Len(playerPanels)
  /\ \A i \in 1..Len(playerPanels) : i # p => playerPanels'[i] = playerPanels[i]

\* C37: showPanelEditor(panelId) records the name and the players of the
\* panel, addPlayerToPanel, removePanelPlayer and updatePanelPlayerName keep
\* that record and every other panel, and cancelPanelEditor gives the panel
\* the recorded name and players back and leaves every other panel as it
\* was; in a new-panel edit none of these steps changes the stored panels.
C37_CancelRestoresPanel ==
  /\ [](editingPanelId # NoPanel => originalPanelState # <<>>)
  /\ [][
         /\ \A id \in PanelIds :
             showPanelEditor(id) =>
               /\ playerPanels' = playerPanels
               /\ editingPanelId' = id
               /\ originalPanelState' =
                    <<[name |-> playerPanels[find(playerPanels, id)].name,
                       players |->
                         playerPanels[find(playerPanels, id)].players]>>
         /\ (editingPanelId # NoPanel /\ EditedPlace # 0 /\ PanelEditStep) =>
               /\ originalPanelState' = originalPanelState
               /\ editingPanelId' = editingPanelId
               /\ OtherPanelsKept(EditedPlace)
               /\ playerPanels'[EditedPlace].id = editingPanelId
         /\ (editingPanelId # NoPanel /\ EditedPlace # 0 /\ cancelPanelEditor) =>
               /\ OtherPanelsKept(EditedPlace)
               /\ playerPanels'[EditedPlace] =
                    [playerPanels[EditedPlace] EXCEPT
                       !.name = originalPanelState[1].name,
                       !.players = originalPanelState[1].players]
               /\ editingPanelId' = NoPanel
         /\ (/\ editingPanelId = NoPanel
             /\ \/ showPanelEditor(NoPanel)
                \/ PanelEditStep
                \/ cancelPanelEditor) =>
               playerPanels' = playerPanels]_vars

\* the second of two panels is open in the editor; a nameless player was
\* added to it and its one named player removed, so that cancelling has to
\* undo both
C37_Witness ==
  /\ Len(playerPanels) = 2
  /\ editingPanelId = playerPanels[2].id
  /\ originalPanelState # <<>>
  /\ Len(originalPanelState[1].players) = 1
  /\ originalPanelState[1].players[1].name = "Ann"
  /\ Len(playerPanels[2].players) = 1
  /\ playerPanels[2].players[1].name = ""
  /\ ENABLED cancelPanelEditor

(***************************** claims: refused import **********************)
\* C38: for a document without a matches array, or with a match lacking
\* its id, team1 or team2, importData returns success false and can only
\* leave appState.matches, playerPanels, lastSelectedPanels and both stores
\* as they were, also when a match the collection does not hold is listed
\* before the invalid one.
C38_RefusedImportChangesNothing ==
  \A doc \in RefusedDocs :
    /\ ~importSuccess(doc)
    /\ ENABLED importData(doc)
    /\ ~ENABLED (/\ importData(doc)
                 /\ <<matches, playerPanels, lastSelectedPanels,
                      localStorage, indexedDB>>' #
                    <<matches, playerPanels, lastSelectedPanels,
                      localStorage, indexedDB>>)

\* an import has succeeded before, and the refused documents list a match
\* and a panel selection that the collections do not hold
C38_Witness ==
  /\ Len(matches) >= 2
  /\ playerPanels # <<>>
  /\ \A i \in 1..Len(matches) : matches[i].id # "m4"
  /\ lastSelectedPanels = {}
  /\ ~lsFails
  /\ \A doc \in RefusedDocs : ENABLED importData(doc)

(***************************** claims: deleted match ***********************)
\* the ids deleteMatch is called with: the stored match, two imported ones
\* and one that no collection holds
DeletedIds == {MatchId, "m2", "m3", "m9"}

\* what the step of deleteMatch(id) has to be
DeleteExpected(id) ==
  IF \A i \in 1..Len(matches) : matches[i].id # id
  THEN UNCHANGED vars
  ELSE /\ \E k \in 1..Len(matches) :
            /\ matches[k].id = id
            /\ Len(matches') = Len(matches) - 1
            /\ \A i \in 1..(k - 1) : matches'[i] = matches[i]
            /\ \A i \in k..Len(matches') : matches'[i] = matches[i + 1]
       /\ UniqueIds(matches) =>
            \A i \in 1..Len(matches') : matches'[i].id # id
       /\ currentMatchId' = IF currentMatchId = id THEN NoMatch
                            ELSE currentMatchId

\* C39: deleteMatch(id) takes one match with that id out of the collection
\* (the only one when ids are unique), leaves every other match as it was
\* and in its order, clears currentMatchId when it was id, and changes
\* nothing, the stores included, when no match has that id.
C39_DeleteRemovesOneMatch ==
  \A id \in DeletedIds :
    /\ ENABLED deleteMatch(id)
    /\ ~ENABLED (deleteMatch(id) /\ ~DeleteExpected(id))

\* three matches with different ids, the first of them open: it can be
\* deleted from the front and m2 from the middle
C39_Witness ==
  /\ Len(matches) = 3
  /\ UniqueIds(matches)
  /\ matches[1].id = MatchId
  /\ matches[2].id = "m2"
  /\ currentMatchId = MatchId
  /\ \A i \in 1..Len(matches) : matches[i].id # "m9"
  /\ ENABLED deleteMatch(MatchId)
  /\ ENABLED deleteMatch("m2")
====
